---- MODULE Spec2Model ----
(***************************************************************************)
(* A model of the AD9959 DDS driver (ad9959/src/lib.rs) and of the Pounder  *)
(* hardware glue that carries it.                                           *)
(*                                                                          *)
(* Spec models the device controller Ad9959<I>: its construction sequence   *)
(* (Ad9959::new), the per-channel setters and getters, self_test,           *)
(* get_reference_clock_multiplier and freeze.  Every statement of the code  *)
(* that is visible outside the driver (a pin operation, a delay, a          *)
(* transport call) is one action; pc holds the source line of the next      *)
(* such statement and trace records the events of the running operation.   *)
(* The environment decides the outcome of every fallible call: a pin        *)
(* operation or a transport call may fail with any error kind of its own,   *)
(* and a transport read may return bytes other than the chip's (a glitch).  *)
(*                                                                          *)
(* CodecSpec applies the free functions validate_clocking,                  *)
(* frequency_to_ftw, phase_to_pow and amplitude_to_acr to arguments around  *)
(* their thresholds, with the f32 arithmetic of the code.  SerializerSpec   *)
(* models ProfileSerializer: batches of update_channels, set_system_clock   *)
(* and finalize on its 32-byte buffer.  SystemClockSpec applies             *)
(* set_system_clock to a serializer just made, for every multiplier its     *)
(* field holds.  QspiSpec models QspiInterface (pounder/mod.rs), the        *)
(* adapter that carries the driver's reads and writes to the QSPI           *)
(* peripheral.  ChannelSpec runs the setters, the getters and self_test as  *)
(* whole operations on a chip with per-channel registers.  AttenuatorSpec   *)
(* models set_attenuations of AttenuatorInterface                           *)
(* (pounder/attenuators.rs).                                                *)
(***************************************************************************)
EXTENDS Integers, Sequences, FiniteSets, TLC

VARIABLES
    status,         \* "Unbuilt" | "Building" | "Ready" | "Failed" | "Frozen"
    ad9959,         \* the fields of struct Ad9959 other than the interface
    pc,             \* source position of the next statement, "idle" when none runs
    op,             \* the public operation that runs or ran last
    args,           \* the arguments Ad9959::new was called with
    locals,         \* the local variables of the running operation
    result,         \* what the last finished operation returned
    trace,          \* the externally visible events of the running/last operation
    chip,           \* the chip's registers: [csr, fr1]
    interfaceMode,  \* the mode the transport was last configured to
    pins,           \* the levels of the two output pins
    glitches,       \* per register, the reads that did not return the chip's bytes
    call,           \* a call of a free function: [fn, in, out]
    serializer,     \* a ProfileSerializer: [data, index, mode], whether it
                    \* panicked, and the method calls made on it, each with
                    \* the cursor it found
    qspiInterface,  \* a QspiInterface: [mode, streaming], and as qspi the
                    \* transactions its peripheral made in the running call
    dds,            \* a chip with per-channel registers: [csr, fr1, CFTW0,
                    \* CPOW0, ACR], and as `set` what the last setter that
                    \* returned Ok returned, for each channel and register
    attenuators     \* the calls set_attenuations made on transfer_attenuators
                    \* and latch_attenuators in the running call

\* The variables that are no part of the controller and its environment.
\* The variables of the per-channel chip model and of the attenuators.
others == <<dds, attenuators>>

aside == <<call, serializer, qspiInterface, others>>

vars == <<status, ad9959, pc, op, args, locals, result, trace, chip,
          interfaceMode, pins, glitches, aside>>

----------------------------------------------------------------------------
(* Bounds of the model. *)

\* How many reads the environment may answer with bytes that are not the chip's.
MaxGlitches == 1

\* The largest clock multiplier validate_clocking is called with.
MaxMultiplier == 21

\* The largest product reference * multiplier validate_clocking is called with.
HzLimit == 2000000000

\* How many methods are called on one ProfileSerializer.
MaxBatch == 4

\* The longest payload QspiInterface::write is called with.
MaxPayload == 3

----------------------------------------------------------------------------
(* Bit manipulation on unsigned integers (u8/u16/u32 operators of the code). *)

Pow2(n) == 2 ^ n

RECURSIVE BitAnd(_, _)
BitAnd(a, b) ==
    IF a = 0 \/ b = 0 THEN 0
    ELSE (a % 2) * (b % 2) + 2 * BitAnd(a \div 2, b \div 2)

RECURSIVE BitOr(_, _)
BitOr(a, b) ==
    IF a = 0 THEN b
    ELSE IF b = 0 THEN a
    ELSE (IF a % 2 = 1 \/ b % 2 = 1 THEN 1 ELSE 0) + 2 * BitOr(a \div 2, b \div 2)

\* bit_field: x.get_bits(lo..=hi)
GetBits(x, lo, hi) == (x \div Pow2(lo)) % Pow2(hi - lo + 1)

\* bit_field: x.set_bits(lo..=hi, v), v fitting the field
SetBits(x, lo, hi, v) == x - GetBits(x, lo, hi) * Pow2(lo) + v * Pow2(lo)

\* bit_field: x.set_bit(n, b)
SetBit(x, n, b) == SetBits(x, n, n, IF b THEN 1 ELSE 0)

\* bit_field: x.get_bit(n)
GetBit(x, n) == GetBits(x, n, n) = 1

\* u16::to_be_bytes
U16ToBe(x) == <<x \div 256, x % 256>>

\* u32::to_be_bytes()[1..] of a value below 2^24
U24ToBe(x) == <<x \div 65536, (x \div 256) % 256, x % 256>>

----------------------------------------------------------------------------
(* Register model: enum Mode, bitflags Channel, enum Register, enum Error. *)

SingleBitTwoWire == 0
SingleBitThreeWire == 2
TwoBitSerial == 4
FourBitSerial == 6
Modes == {SingleBitTwoWire, SingleBitThreeWire, TwoBitSerial, FourBitSerial}

ChannelONE == 16
ChannelTWO == 32
ChannelTHREE == 64
ChannelFOUR == 128
ChannelALL == BitOr(BitOr(ChannelONE, ChannelTWO), BitOr(ChannelTHREE, ChannelFOUR))

\* The address of each register the driver touches (`reg as u8`).
RegisterAddress ==
    [CSR |-> 0, FR1 |-> 1, CFTW0 |-> 4, CPOW0 |-> 5, ACR |-> 6, LSRR |-> 7]

\* enum Error of the driver
DriverErrors == {"Interface", "Check", "Bounds", "Pin", "Frequency"}

\* Result<T, Error>: val holds the integers of the Ok value, err the error kind.
Ok(v) == [tag |-> "Ok", err |-> "", val |-> v]
Err(e) == [tag |-> "Err", err |-> e, val |-> <<>>]

----------------------------------------------------------------------------
(* Unit codecs.  Frequencies are integers in Hz; a phase is an integer in   *)
(* units of 1/PhaseScale turn and an amplitude an integer in units of       *)
(* 1/AmplitudeScale of full scale, one bit finer than the machine codes so  *)
(* that the truncation of the conversions is visible.                       *)

PhaseScale == 2 * Pow2(14)
AmplitudeScale == 2 * Pow2(10)

\* The f32 nearest to the non-negative integer n (round to nearest, ties to even):
\* the value of an integer-valued f32 product such as `multiplier as f32 * f`.
RECURSIVE F32Shift(_, _)
F32Shift(n, k) == IF n \div Pow2(k) < Pow2(24) THEN k ELSE F32Shift(n, k + 1)

F32Round(n) ==
    LET k == F32Shift(n, 0)
        m == n \div Pow2(k)
        rem == n % Pow2(k)
        up == k > 0 /\ (2 * rem > Pow2(k) \/ (2 * rem = Pow2(k) /\ m % 2 = 1))
    IN  (IF up THEN m + 1 ELSE m) * Pow2(k)

\* Mutant of validate_clocking: the band check comes before the bounds check.
validate_clocking_band_first(reference_clock_frequency, multiplier) ==
    LET frequency == F32Round(multiplier * reference_clock_frequency)
    IN  IF /\ ~(frequency >= 255000000 /\ frequency <= 500000000)
           /\ ~(frequency >= 100000000 /\ frequency <= 160000000)
           /\ (multiplier # 1 \/ ~(frequency >= 0 /\ frequency < 100000000))
        THEN Err("Frequency")
        ELSE IF \/ (multiplier # 1 /\ ~(multiplier \in 4..20))
                \/ (multiplier # 1 /\ reference_clock_frequency < 10000000)
                \/ reference_clock_frequency < 1000000
        THEN Err("Bounds")
        ELSE Ok(<<frequency>>)

\* Mutant of validate_clocking: the product is computed without rounding.
validate_clocking_exact(reference_clock_frequency, multiplier) ==
    IF \/ (multiplier # 1 /\ ~(multiplier \in 4..20))
       \/ (multiplier # 1 /\ reference_clock_frequency < 10000000)
       \/ reference_clock_frequency < 1000000
    THEN Err("Bounds")
    ELSE LET frequency == multiplier * reference_clock_frequency
         IN  IF /\ ~(frequency >= 255000000 /\ frequency <= 500000000)
                /\ ~(frequency >= 100000000 /\ frequency <= 160000000)
                /\ (multiplier # 1 \/ ~(frequency >= 0 /\ frequency < 100000000))
             THEN Err("Frequency")
             ELSE Ok(<<frequency>>)

\* pub fn validate_clocking
validate_clocking(reference_clock_frequency, multiplier) ==
    IF \/ (multiplier # 1 /\ ~(multiplier \in 4..20))
       \/ (multiplier # 1 /\ reference_clock_frequency < 10000000)
       \/ reference_clock_frequency < 1000000
    THEN Err("Bounds")
    ELSE LET frequency == F32Round(multiplier * reference_clock_frequency)
         IN  IF /\ ~(frequency >= 255000000 /\ frequency <= 500000000)
                /\ ~(frequency >= 100000000 /\ frequency <= 160000000)
                /\ (multiplier # 1 \/ ~(frequency >= 0 /\ frequency < 100000000))
             THEN Err("Frequency")
             ELSE Ok(<<frequency>>)

\* The f32 quotient f / fs for 0 < f < fs, as <<p, m>>: the value m * 2^-(p+23),
\* p the position of the leading fraction bit and m the 24-bit mantissa after
\* rounding to nearest, ties to even.
RECURSIVE F32DivLead(_, _, _)
F32DivLead(r, fs, p) == IF 2 * r >= fs THEN <<r, p>> ELSE F32DivLead(2 * r, fs, p + 1)

RECURSIVE F32DivBits(_, _, _, _)
F32DivBits(r, fs, n, m) ==
    IF n = 0 THEN <<r, m>>
    ELSE LET bit == IF 2 * r >= fs THEN 1 ELSE 0
         IN  F32DivBits(2 * r - bit * fs, fs, n - 1, 2 * m + bit)

F32Div(f, fs) ==
    LET lead == F32DivLead(f, fs, 1)
        bits == F32DivBits(lead[1], fs, 24, 0)
        r == bits[1]
        m == bits[2]
        up == 2 * r > fs \/ (2 * r = fs /\ m % 2 = 1)
    IN  <<lead[2], IF up THEN m + 1 ELSE m>>

\* Mutant of frequency_to_ftw: the Nyquist frequency itself is rejected.
frequency_to_ftw_below_nyquist(dds_frequency, system_clock_frequency) ==
    IF ~(dds_frequency >= 0 /\ 2 * dds_frequency < system_clock_frequency)
    THEN Err("Bounds")
    ELSE IF dds_frequency = 0 THEN Ok(<<0, 0, 0, 0>>)
    ELSE LET q == F32Div(dds_frequency, system_clock_frequency)
             p == q[1]
             m == q[2]
         IN  IF p <= 9
             THEN LET cut == Pow2(24 - (9 - p))
                  IN  Ok(<<m \div cut>> \o U24ToBe((m % cut) * Pow2(9 - p)))
             ELSE Ok(<<0>> \o U24ToBe(m \div Pow2(p - 9)))

\* pub fn frequency_to_ftw; the tuning word is given as u32::to_be_bytes.
frequency_to_ftw(dds_frequency, system_clock_frequency) ==
    IF ~(dds_frequency >= 0 /\ 2 * dds_frequency <= system_clock_frequency)
    THEN Err("Bounds")
    ELSE IF dds_frequency = 0 THEN Ok(<<0, 0, 0, 0>>)
    ELSE LET q == F32Div(dds_frequency, system_clock_frequency)
             p == q[1]
             m == q[2]
         IN  IF p <= 9
             THEN LET cut == Pow2(24 - (9 - p))
                  IN  Ok(<<m \div cut>> \o U24ToBe((m % cut) * Pow2(9 - p)))
             ELSE Ok(<<0>> \o U24ToBe(m \div Pow2(p - 9)))

\* `x as u16` of the f32 x = n / d: truncation toward zero, saturating.
F32AsU16(n, d) ==
    IF n < 0 THEN 0
    ELSE IF n \div d > 65535 THEN 65535
    ELSE n \div d

\* pub fn phase_to_pow
phase_to_pow(phase_turns) ==
    Ok(<<BitAnd(F32AsU16(phase_turns, PhaseScale \div Pow2(14)), Pow2(14) - 1)>>)

\* Mutant of amplitude_to_acr: the multiplier stays enabled at full scale.
amplitude_to_acr_inclusive(amplitude) ==
    IF ~(amplitude >= 0 /\ amplitude <= AmplitudeScale)
    THEN Err("Bounds")
    ELSE LET amplitude_control == F32AsU16(amplitude, AmplitudeScale \div Pow2(10))
         IN  IF amplitude_control <= Pow2(10)
             THEN Ok(<<BitOr(BitAnd(amplitude_control, 1023), Pow2(12))>>)
             ELSE Ok(<<0>>)

\* pub fn amplitude_to_acr
amplitude_to_acr(amplitude) ==
    IF ~(amplitude >= 0 /\ amplitude <= AmplitudeScale)
    THEN Err("Bounds")
    ELSE LET amplitude_control == F32AsU16(amplitude, AmplitudeScale \div Pow2(10))
         IN  IF amplitude_control < Pow2(10)
             THEN Ok(<<BitOr(BitAnd(amplitude_control, 1023), Pow2(12))>>)
             ELSE Ok(<<0>>)

----------------------------------------------------------------------------
(* The environment of the controller: pins, delay, transport and chip.      *)

\* What a pin operation can answer: success or the pin's own error.
PinOutcomes == {"ok", "PinFault"}

\* What a transport call can answer: success or an error of the transport's own
\* type (here a kind of the Pounder QSPI transport).
TransportOutcomes == {"ok", "InvalidState"}

\* An externally visible event: a pin set ("set"), a delay ("delay_us"), or a
\* transport call ("configure_mode", "write", "read").  val is the level, the
\* microseconds, the mode, the bytes written or the bytes read.
Event(ev, tgt, val, res) == [ev |-> ev, tgt |-> tgt, val |-> val, res |-> res]

\* The chip after a reset pulse: all channels enabled, single-bit two-wire
\* mode, PLL bypassed.
ChipReset == [csr |-> ChannelALL, fr1 |-> <<0, 0, 0>>]

\* Bytes a transport read may deliver instead of the chip's.
GlitchData ==
    [CSR |-> {<<BitOr(ChannelTHREE, SingleBitThreeWire)>>, <<165>>},
     FR1 |-> {<<3, 165, 90>>}]

\* Contents the per-channel registers may be read with.
ChannelData ==
    [CFTW0 |-> {<<64, 0, 0, 0>>, <<0, 0, 1, 2>>},
     CPOW0 |-> {<<32, 1>>, <<255, 255>>},
     ACR |-> {<<0, 18, 0>>, <<0, 0, 7>>}]

\* The bytes of a chip register.
ChipRead(c, reg) == IF reg = "CSR" THEN <<c.csr>> ELSE c.fr1

\* The chip after a register write.
ChipWrite(c, reg, data) ==
    IF reg = "CSR" THEN [c EXCEPT !.csr = data[1]]
    ELSE IF reg = "FR1" THEN [c EXCEPT !.fr1 = data]
    ELSE c

\* What a read of reg may deliver: the chip's bytes, or other bytes.
ReadData(c, reg) ==
    IF reg \in {"CSR", "FR1"}
    THEN {ChipRead(c, reg)}
         \cup (IF glitches.CSR + glitches.FR1 < MaxGlitches THEN GlitchData[reg] ELSE {})
    ELSE ChannelData[reg]

IsGlitch(c, reg, d) == reg \in {"CSR", "FR1"} /\ d # ChipRead(c, reg)

\* The glitch count after a successful read of reg that delivered d.
Glitched(c, reg, d) ==
    IF IsGlitch(c, reg, d) THEN [glitches EXCEPT ![reg] = @ + 1] ELSE glitches

----------------------------------------------------------------------------
(* Inputs of the public operations. *)

\* (clock_frequency, multiplier) pairs for Ad9959::new: accepted with the PLL in
\* its low and in its high band, rejected with Frequency and with Bounds.
ClockInputs ==
    {<<25000000, 4>>, <<100000000, 5>>, <<25000000, 7>>, <<25000000, 2>>}

\* Channel sets the per-channel operations are called with: one channel, two channels.
ChannelInputs == {ChannelONE, BitOr(ChannelTWO, ChannelFOUR)}

FrequencyInputs == {-1, 10000000, 50000000, 260000000}

PhaseInputs == {16385, 4 * PhaseScale + 3}

AmplitudeInputs == {-1, 1025, AmplitudeScale, AmplitudeScale + 1}

NoLocals ==
    [channel |-> 0, register |-> "", data |-> <<>>, csr |-> 0, old_csr |-> 0, ret |-> <<>>]

NoArgs == [desired_mode |-> 0, clock_frequency |-> 0, multiplier |-> 0]

----------------------------------------------------------------------------
(* Control flow shared by the operations. *)

\* Mutant of PinError: the pin's own error is passed on.
PinErrorPassedOn(r) == r

\* `.or(Err(Error::Pin))` on a failed pin operation.
PinError(r) == "Pin"

\* Mutant of InterfaceError: the transport's own error kind is passed on.
InterfaceErrorPassedOn(r) == r

\* `.or(Err(Error::Interface))` on a failed transport call.
InterfaceError(r) == "Interface"

\* The running operation returns r.
Finish(r) ==
    /\ result' = r
    /\ pc' = "idle"
    /\ status' = IF op = "new" THEN (IF r.tag = "Ok" THEN "Ready" ELSE "Failed")
                 ELSE status

\* The running operation goes on with the statement at next.
Goto(next) ==
    /\ pc' = next
    /\ UNCHANGED <<result, status>>

\* No free function is being called.
NoCall == [fn |-> "none", in |-> <<>>, out |-> Ok(<<>>)]

\* No ProfileSerializer exists.
NoSerializer ==
    [data |-> <<>>, index |-> 0, mode |-> 0, panicked |-> FALSE, calls |-> <<>>]

\* No QspiInterface has been made.
NoQspiInterface == [made |-> FALSE, qspi |-> <<>>, mode |-> 0, streaming |-> FALSE]

\* The channels of the chip, as the bits of CSR that enable them.
ChipChannels == {ChannelONE, ChannelTWO, ChannelTHREE, ChannelFOUR}

\* The chip with per-channel registers after a reset: all channels enabled,
\* every per-channel register zero, no setter called yet.
NoDds ==
    [csr |-> ChannelALL, fr1 |-> <<0, 0, 0>>,
     CFTW0 |-> [c \in ChipChannels |-> <<0, 0, 0, 0>>],
     CPOW0 |-> [c \in ChipChannels |-> <<0, 0>>],
     ACR |-> [c \in ChipChannels |-> <<0, 0, 0>>],
     set |-> [c \in ChipChannels |->
                 [CFTW0 |-> <<>>, CPOW0 |-> <<>>, ACR |-> <<>>]]]

\* Before Ad9959::new: no controller exists, the chip is in some state.
ControllerInit ==
    /\ status = "Unbuilt"
    /\ ad9959 = [reference_clock_frequency |-> 0, system_clock_multiplier |-> 0,
                 communication_mode |-> SingleBitTwoWire]
    /\ pc = "idle"
    /\ op = "none"
    /\ args = NoArgs
    /\ locals = NoLocals
    /\ result = Ok(<<>>)
    /\ trace = <<>>
    /\ chip \in {ChipReset, [csr |-> BitOr(ChannelTWO, TwoBitSerial), fr1 |-> <<208, 0, 0>>]}
    /\ interfaceMode = SingleBitTwoWire
    /\ pins = [reset_pin |-> 0, io_update |-> 1]
    /\ glitches = [CSR |-> 0, FR1 |-> 0]

Init ==
    /\ ControllerInit
    /\ call = NoCall
    /\ serializer = NoSerializer
    /\ qspiInterface = NoQspiInterface
    /\ dds = NoDds
    /\ attenuators = <<>>

\* A pin operation `pin.set_high()` / `pin.set_low()` of Ad9959::new followed by
\* `.or(Err(Error::Pin))?`; the last one is followed by `Ok(ad9959)`.
PinStep(here, next, pin, level) ==
    /\ pc = here
    /\ \E r \in PinOutcomes:
         /\ trace' = Append(trace, Event("set", pin, <<level>>, r))
         /\ IF r = "ok"
            THEN /\ pins' = [pins EXCEPT ![pin] = level]
                 /\ chip' = IF pin = "reset_pin" /\ level = 1 THEN ChipReset ELSE chip
                 /\ IF next = "idle" THEN Finish(Ok(<<>>)) ELSE Goto(next)
            ELSE /\ Finish(Err(PinError(r)))
                 /\ UNCHANGED <<pins, chip>>
    /\ UNCHANGED <<ad9959, op, args, locals, interfaceMode, glitches, aside>>

\* Mutant of DelayStep: the delay is rounded down by a microsecond.
DelayStepShort(here, next, us) ==
    /\ pc = here
    /\ trace' = Append(trace, Event("delay_us", "delay", <<us - 1>>, "ok"))
    /\ Goto(next)
    /\ UNCHANGED <<ad9959, op, args, locals, chip, interfaceMode, pins, glitches, aside>>

\* `delay.delay_us(us)` of Ad9959::new: it cannot fail.
DelayStep(here, next, us) ==
    /\ pc = here
    /\ trace' = Append(trace, Event("delay_us", "delay", <<us>>, "ok"))
    /\ Goto(next)
    /\ UNCHANGED <<ad9959, op, args, locals, chip, interfaceMode, pins, glitches, aside>>

\* `ad9959.interface.configure_mode(mode).or(Err(Error::Interface))?`
ConfigureModeStep(here, next, mode) ==
    /\ pc = here
    /\ \E r \in TransportOutcomes:
         /\ trace' = Append(trace, Event("configure_mode", "interface", <<mode>>, r))
         /\ IF r = "ok"
            THEN /\ interfaceMode' = mode
                 /\ Goto(next)
            ELSE /\ Finish(Err(InterfaceError(r)))
                 /\ UNCHANGED interfaceMode
    /\ UNCHANGED <<ad9959, op, args, locals, chip, pins, glitches, aside>>

\* `self.read(reg, &mut buf)?` (Ad9959::read): the outcome r and the bytes d are
\* the environment's; on success the operation goes on at next with the locals
\* loc, on failure it returns Interface.
ReadStep(here, next, reg, r, d, loc) ==
    /\ pc = here
    /\ r \in TransportOutcomes
    /\ d \in ReadData(chip, reg)
    /\ r # "ok" => d = CHOOSE x \in ReadData(chip, reg) : TRUE
    /\ trace' = Append(trace, Event("read", reg, IF r = "ok" THEN d ELSE <<>>, r))
    /\ IF r = "ok"
       THEN /\ glitches' = Glitched(chip, reg, d)
            /\ locals' = loc
            /\ Goto(next)
       ELSE /\ Finish(Err(InterfaceError(r)))
            /\ UNCHANGED <<glitches, locals>>
    /\ UNCHANGED <<ad9959, op, args, chip, interfaceMode, pins, aside>>

\* The transport and chip side of `self.write(reg, &data)` (Ad9959::write) with
\* outcome r.
WriteCall(reg, data, r) ==
    /\ r \in TransportOutcomes
    /\ trace' = Append(trace, Event("write", reg, data, r))
    /\ chip' = IF r = "ok" THEN ChipWrite(chip, reg, data) ELSE chip

\* Mutant of WriteStep: the result of the write is not looked at (a missing `?`).
WriteStepUnchecked(here, next, reg, data, loc) ==
    /\ pc = here
    /\ \E r \in TransportOutcomes:
         /\ WriteCall(reg, data, r)
         /\ locals' = loc
         /\ Goto(next)
    /\ UNCHANGED <<ad9959, op, args, interfaceMode, pins, glitches, aside>>

\* `self.write(reg, &data)?` in the middle of an operation.
WriteStep(here, next, reg, data, loc) ==
    /\ pc = here
    /\ \E r \in TransportOutcomes:
         /\ WriteCall(reg, data, r)
         /\ IF r = "ok"
            THEN /\ locals' = loc
                 /\ Goto(next)
            ELSE /\ Finish(Err(InterfaceError(r)))
                 /\ UNCHANGED locals
    /\ UNCHANGED <<ad9959, op, args, interfaceMode, pins, glitches, aside>>

\* `self.write(reg, &data)?; Ok(ret)` at the end of an operation.
WriteReturn(here, reg, data, ret) ==
    /\ pc = here
    /\ \E r \in TransportOutcomes:
         /\ WriteCall(reg, data, r)
         /\ Finish(IF r = "ok" THEN Ok(ret) ELSE Err(InterfaceError(r)))
    /\ UNCHANGED <<ad9959, op, args, locals, interfaceMode, pins, glitches, aside>>

----------------------------------------------------------------------------
(* Ad9959::new *)

\* Mutant of NewCsr: the channel enables are left out.
NewCsrModeOnly(desired_mode) == desired_mode

\* The CSR byte programmed by Ad9959::new: all channels enabled, desired mode.
NewCsr(desired_mode) == BitOr(ChannelALL, desired_mode)

\* The call: the struct is built, nothing is visible outside yet.
New(desired_mode, clock_frequency, multiplier) ==
    /\ status = "Unbuilt"
    /\ pc = "idle"
    /\ status' = "Building"
    /\ ad9959' = [reference_clock_frequency |-> clock_frequency,
                  system_clock_multiplier |-> 1,
                  communication_mode |-> desired_mode]
    /\ args' = [desired_mode |-> desired_mode, clock_frequency |-> clock_frequency,
                multiplier |-> multiplier]
    /\ op' = "new"
    /\ pc' = "new_127"
    /\ trace' = <<>>
    /\ locals' = [NoLocals EXCEPT !.csr = NewCsr(desired_mode)]
    /\ UNCHANGED <<result, chip, interfaceMode, pins, glitches, aside>>

NewCall == \E m \in Modes, c \in ClockInputs : New(m, c[1], c[2])

\* Mutant of New127: the clocking arguments are validated before the first pin
\* operation.
New127Validating ==
    LET v == validate_clocking(args.clock_frequency, args.multiplier)
    IN  IF v.tag = "Err"
        THEN /\ pc = "new_127"
             /\ Finish(v)
             /\ UNCHANGED <<ad9959, op, args, locals, trace, chip, interfaceMode,
                            pins, glitches, aside>>
        ELSE PinStep("new_127", "new_130", "io_update", 0)

New127 == PinStep("new_127", "new_130", "io_update", 0)
New130 == PinStep("new_130", "new_135", "reset_pin", 1)
New135 == DelayStep("new_135", "new_137", 5)
New137 == PinStep("new_137", "new_139", "reset_pin", 0)
New139 == ConfigureModeStep("new_139", "new_146", SingleBitTwoWire)
New146 == WriteStep("new_146", "new_149", "CSR", <<locals.csr>>, locals)
New149 == PinStep("new_149", "new_154", "io_update", 1)
New154 == DelayStep("new_154", "new_156", 5)
New156 == PinStep("new_156", "new_158", "io_update", 0)
New158 == ConfigureModeStep("new_158", "new_169", args.desired_mode)
New169 == DelayStep("new_169", "new_173", 5)

\* Mutant of CsrMismatch: only the mode bits of the read-back are compared.
CsrMismatchOfMode(updated_csr, csr) == BitAnd(updated_csr, 7) # BitAnd(csr, 7)

\* `updated_csr[0] != csr[0]`: the read-back differs from the byte written.
CsrMismatch(updated_csr, csr) == updated_csr # csr

\* Read back the CSR: Check unless it is the byte written.
New173 ==
    /\ pc = "new_173"
    /\ \E r \in TransportOutcomes, d \in ReadData(chip, "CSR"):
         /\ r # "ok" => d = CHOOSE x \in ReadData(chip, "CSR") : TRUE
         /\ trace' = Append(trace, Event("read", "CSR", IF r = "ok" THEN d ELSE <<>>, r))
         /\ IF r = "ok"
            THEN /\ glitches' = Glitched(chip, "CSR", d)
                 /\ IF CsrMismatch(d[1], locals.csr)
                    THEN Finish(Err("Check"))
                    ELSE Goto("csc_220")
            ELSE /\ Finish(Err(InterfaceError(r)))
                 /\ UNCHANGED glitches
    /\ UNCHANGED <<ad9959, op, args, locals, chip, interfaceMode, pins, aside>>

\* Mutant of ClockFr1: the FR1 bytes are built from zero, not from the bytes read.
ClockFr1Fresh(fr1, multiplier, frequency) ==
    <<SetBit(SetBits(0, 2, 6, multiplier), 7, frequency > 200000000), 0, 0>>

\* The FR1 bytes configure_system_clock writes back, from the bytes read.
ClockFr1(fr1, multiplier, frequency) ==
    <<SetBit(SetBits(fr1[1], 2, 6, multiplier), 7, frequency > 200000000),
      fr1[2], fr1[3]>>

\* configure_system_clock, called by new at line 179: validation.
Csc220 ==
    /\ pc = "csc_220"
    /\ LET v == validate_clocking(args.clock_frequency, args.multiplier)
       IN  IF v.tag = "Err"
           THEN /\ Finish(v)
                /\ UNCHANGED <<ad9959, locals>>
           ELSE /\ ad9959' = [ad9959 EXCEPT
                                !.reference_clock_frequency = args.clock_frequency]
                /\ locals' = [locals EXCEPT !.ret = v.val]
                /\ Goto("csc_225")
    /\ UNCHANGED <<op, args, trace, chip, interfaceMode, pins, glitches, aside>>

Csc225 ==
    /\ pc = "csc_225"
    /\ \E r \in TransportOutcomes, d \in ReadData(chip, "FR1"):
           ReadStep("csc_225", "csc_231", "FR1", r, d, [locals EXCEPT !.data = d])

\* Mutant of Csc231: the multiplier is not stored.
Csc231NotStored ==
    /\ pc = "csc_231"
    /\ \E r \in TransportOutcomes:
         /\ WriteCall("FR1", ClockFr1(locals.data, args.multiplier, locals.ret[1]), r)
         /\ IF r = "ok"
            THEN Goto("new_182")
            ELSE Finish(Err(InterfaceError(r)))
    /\ UNCHANGED <<ad9959, op, args, locals, interfaceMode, pins, glitches, aside>>

\* The FR1 write; the multiplier is stored once it succeeded.
Csc231 ==
    /\ pc = "csc_231"
    /\ \E r \in TransportOutcomes:
         /\ WriteCall("FR1", ClockFr1(locals.data, args.multiplier, locals.ret[1]), r)
         /\ IF r = "ok"
            THEN /\ ad9959' = [ad9959 EXCEPT !.system_clock_multiplier = args.multiplier]
                 /\ Goto("new_182")
            ELSE /\ Finish(Err(InterfaceError(r)))
                 /\ UNCHANGED ad9959
    /\ UNCHANGED <<op, args, locals, interfaceMode, pins, glitches, aside>>

New182 == PinStep("new_182", "new_187", "io_update", 1)
New187 == DelayStep("new_187", "new_189", 5)
New189 == PinStep("new_189", "idle", "io_update", 0)

NewSteps ==
    \/ New127 \/ New130 \/ New135 \/ New137 \/ New139 \/ New146 \/ New149
    \/ New154 \/ New156 \/ New158 \/ New169 \/ New173 \/ Csc220 \/ Csc225
    \/ Csc231 \/ New182 \/ New187 \/ New189

----------------------------------------------------------------------------
(* Steady-state operations of a constructed controller. *)

\* A public method can be called: the controller exists and no operation runs.
Callable == status = "Ready" /\ pc = "idle"

\* A public method is entered.
Enter(name, at, loc) ==
    /\ Callable
    /\ op' = name
    /\ pc' = at
    /\ trace' = <<>>
    /\ locals' = loc
    /\ UNCHANGED <<status, ad9959, args, result, chip, interfaceMode, pins,
                   glitches, aside>>

\* A public method returns r before any transport call.
Reject(name, r) ==
    /\ Callable
    /\ op' = name
    /\ trace' = <<>>
    /\ locals' = NoLocals
    /\ result' = r
    /\ UNCHANGED <<status, pc, ad9959, args, chip, interfaceMode, pins, glitches, aside>>

\* fn system_clock_frequency
system_clock_frequency ==
    F32Round(ad9959.system_clock_multiplier * ad9959.reference_clock_frequency)

\* Mutant of ChannelCsr: the mode bits are left out.
ChannelCsrNoMode(communication_mode, channel) == channel

\* Mutant of ChannelCsr: the channels enabled so far stay enabled.
ChannelCsrKeepEnabled(communication_mode, channel) ==
    BitOr(BitOr(communication_mode, channel), chip.csr - (chip.csr % 16))

\* The CSR byte that selects `channel` in modify_channel and read_channel.
ChannelCsr(communication_mode, channel) == BitOr(communication_mode, channel)

\* pub fn set_phase: the returned phase is phase_offset / 2^14.
SetPhase(channel, phase_turns) ==
    LET phase_offset == phase_to_pow(phase_turns).val[1]
    IN  Enter("set_phase", "mc_313",
              [NoLocals EXCEPT !.channel = channel, !.register = "CPOW0",
                               !.data = U16ToBe(phase_offset),
                               !.ret = <<phase_offset>>])

\* The amplitude set_amplitude returns for an ACR word, in units of 1/2^10.
AcrAmplitude(acr) ==
    IF BitAnd(acr, Pow2(12)) # 0 THEN BitAnd(acr, Pow2(10) - 1) ELSE Pow2(10)

\* pub fn set_amplitude
SetAmplitude(channel, amplitude) ==
    LET acr == amplitude_to_acr(amplitude)
    IN  IF acr.tag = "Err"
        THEN Reject("set_amplitude", acr)
        ELSE Enter("set_amplitude", "mc_313",
                   [NoLocals EXCEPT !.channel = channel, !.register = "ACR",
                                    !.data = U24ToBe(acr.val[1]),
                                    !.ret = <<AcrAmplitude(acr.val[1])>>])

\* Mutant of SetFrequency: the result of frequency_to_ftw is looked at after
\* the channel has been selected.
SetFrequencyUnchecked(channel, frequency) ==
    LET tuning_word == frequency_to_ftw(frequency, system_clock_frequency)
        word == IF tuning_word.tag = "Err" THEN <<0, 0, 0, 0>> ELSE tuning_word.val
    IN  Enter("set_frequency", "mc_313",
              [NoLocals EXCEPT !.channel = channel, !.register = "CFTW0",
                               !.data = word, !.ret = word])

\* pub fn set_frequency: the returned frequency is that of the tuning word.
SetFrequency(channel, frequency) ==
    LET tuning_word == frequency_to_ftw(frequency, system_clock_frequency)
    IN  IF tuning_word.tag = "Err"
        THEN Reject("set_frequency", tuning_word)
        ELSE Enter("set_frequency", "mc_313",
                   [NoLocals EXCEPT !.channel = channel, !.register = "CFTW0",
                                    !.data = tuning_word.val,
                                    !.ret = tuning_word.val])

SetPhaseCall ==
    Callable /\ \E c \in ChannelInputs, t \in PhaseInputs : SetPhase(c, t)

SetAmplitudeCall ==
    Callable /\ \E c \in ChannelInputs, a \in AmplitudeInputs : SetAmplitude(c, a)

SetFrequencyCall ==
    Callable /\ \E c \in ChannelInputs, f \in FrequencyInputs : SetFrequency(c, f)

\* fn modify_channel: select the channel, no restoring of the CSR.
Mc313 ==
    WriteStep("mc_313", "mc_314", "CSR",
              <<ChannelCsr(ad9959.communication_mode, locals.channel)>>, locals)

Mc314 == WriteReturn("mc_314", locals.register, locals.data, locals.ret)

\* pub fn get_phase / get_amplitude / get_frequency: each is read_channel on its
\* register, then the decoding of the bytes read.
Get(name, register, channel) ==
    Enter(name, "rc_334", [NoLocals EXCEPT !.channel = channel, !.register = register])

GetPhaseCall == \E c \in ChannelInputs : Get("get_phase", "CPOW0", c)
GetAmplitudeCall == \E c \in ChannelInputs : Get("get_amplitude", "ACR", c)
GetFrequencyCall == \E c \in ChannelInputs : Get("get_frequency", "CFTW0", c)

\* What the getter `name` returns for the bytes read: the phase in units of
\* 1/2^14 turn, the amplitude in units of 1/2^10, the tuning word.
Decode(name, data) ==
    IF name = "get_phase"
    THEN <<BitAnd(data[1] * 256 + data[2], Pow2(14) - 1)>>
    ELSE IF name = "get_amplitude"
    THEN IF GetBit(data[2], 4)
         THEN <<BitAnd(data[2] * 256 + data[3], 1023)>>
         ELSE <<Pow2(10)>>
    ELSE data

\* fn read_channel: save the CSR, select the channel, read, restore the CSR.
Rc334 ==
    /\ pc = "rc_334"
    /\ \E r \in TransportOutcomes, d \in ReadData(chip, "CSR"):
           ReadStep("rc_334", "rc_337", "CSR", r, d, [locals EXCEPT !.csr = d[1]])

Rc337 ==
    WriteStep("rc_337", "rc_338", "CSR",
              <<ChannelCsr(ad9959.communication_mode, locals.channel)>>, locals)

Rc338 ==
    /\ pc = "rc_338"
    /\ \E r \in TransportOutcomes, d \in ReadData(chip, locals.register):
           ReadStep("rc_338", "rc_342", locals.register, r, d, [locals EXCEPT !.data = d])

\* Mutant of Rc342: the CSR written last is the selecting one, not the saved one.
Rc342Reselect ==
    WriteReturn("rc_342", "CSR",
                <<ChannelCsr(ad9959.communication_mode, locals.channel)>>,
                Decode(op, locals.data))

Rc342 == WriteReturn("rc_342", "CSR", <<locals.csr>>, Decode(op, locals.data))

\* pub fn get_reference_clock_multiplier
GetReferenceClockMultiplierCall ==
    Enter("get_reference_clock_multiplier", "gm_245", NoLocals)

Gm245 ==
    /\ pc = "gm_245"
    /\ \E r \in TransportOutcomes, d \in ReadData(chip, "FR1"):
         /\ r # "ok" => d = CHOOSE x \in ReadData(chip, "FR1") : TRUE
         /\ trace' = Append(trace, Event("read", "FR1", IF r = "ok" THEN d ELSE <<>>, r))
         /\ glitches' = IF r = "ok" THEN Glitched(chip, "FR1", d) ELSE glitches
         /\ Finish(IF r = "ok" THEN Ok(<<GetBits(d[1], 2, 6)>>)
                   ELSE Err(InterfaceError(r)))
    /\ UNCHANGED <<ad9959, op, args, locals, chip, interfaceMode, pins, aside>>

\* pub fn self_test
SelfTestCall == Enter("self_test", "st_259", NoLocals)

St259 ==
    /\ pc = "st_259"
    /\ \E r \in TransportOutcomes, d \in ReadData(chip, "CSR"):
           ReadStep("st_259", "st_264", "CSR", r, d,
                    [locals EXCEPT !.csr = d[1], !.old_csr = d[1]])

\* Mutant of St264: the byte written is 0xF0, the mode bits are lost.
St264AllOnly ==
    WriteStep("st_264", "st_268", "CSR", <<240>>, [locals EXCEPT !.csr = 240])

\* Enable all channels.
St264 ==
    LET csr == SetBits(locals.csr, 4, 7, 15)
    IN  WriteStep("st_264", "st_268", "CSR", <<csr>>, [locals EXCEPT !.csr = csr])

\* Mutant of ReadBack: a mismatch is reported as the error Check.
ReadBackHard(here, next, want) ==
    /\ pc = here
    /\ \E r \in TransportOutcomes, d \in ReadData(chip, "CSR"):
         /\ r # "ok" => d = CHOOSE x \in ReadData(chip, "CSR") : TRUE
         /\ trace' = Append(trace, Event("read", "CSR", IF r = "ok" THEN d ELSE <<>>, r))
         /\ IF r = "ok"
            THEN /\ glitches' = Glitched(chip, "CSR", d)
                 /\ locals' = [locals EXCEPT !.csr = d[1]]
                 /\ IF GetBits(d[1], 4, 7) # want
                    THEN Finish(Err("Check"))
                    ELSE Goto(next)
            ELSE /\ Finish(Err(InterfaceError(r)))
                 /\ UNCHANGED <<glitches, locals>>
    /\ UNCHANGED <<ad9959, op, args, chip, interfaceMode, pins, aside>>

\* A read-back of self_test: false unless the channel enables are `want`.
ReadBack(here, next, want) ==
    /\ pc = here
    /\ \E r \in TransportOutcomes, d \in ReadData(chip, "CSR"):
         /\ r # "ok" => d = CHOOSE x \in ReadData(chip, "CSR") : TRUE
         /\ trace' = Append(trace, Event("read", "CSR", IF r = "ok" THEN d ELSE <<>>, r))
         /\ IF r = "ok"
            THEN /\ glitches' = Glitched(chip, "CSR", d)
                 /\ locals' = [locals EXCEPT !.csr = d[1]]
                 /\ IF GetBits(d[1], 4, 7) # want
                    THEN Finish(Ok(<<0>>))
                    ELSE Goto(next)
            ELSE /\ Finish(Err(InterfaceError(r)))
                 /\ UNCHANGED <<glitches, locals>>
    /\ UNCHANGED <<ad9959, op, args, chip, interfaceMode, pins, aside>>

St268 == ReadBack("st_268", "st_275", 15)

\* Clear all channel enables.
St275 ==
    LET csr == SetBits(locals.csr, 4, 7, 0)
    IN  WriteStep("st_275", "st_279", "CSR", <<csr>>, [locals EXCEPT !.csr = csr])

St279 == ReadBack("st_279", "st_286", 0)

\* Restore the CSR.
St286 == WriteReturn("st_286", "CSR", <<locals.old_csr>>, <<1>>)

\* pub fn freeze: the controller is consumed; the interface and the mode are
\* handed out.
Freeze ==
    /\ Callable
    /\ status' = "Frozen"
    /\ op' = "freeze"
    /\ trace' = <<>>
    /\ locals' = NoLocals
    /\ result' = Ok(<<ad9959.communication_mode>>)
    /\ UNCHANGED <<pc, ad9959, args, chip, interfaceMode, pins, glitches, aside>>

Calls ==
    \/ SetPhaseCall \/ SetAmplitudeCall \/ SetFrequencyCall
    \/ GetPhaseCall \/ GetAmplitudeCall \/ GetFrequencyCall
    \/ GetReferenceClockMultiplierCall \/ SelfTestCall \/ Freeze

Steps ==
    \/ Mc313 \/ Mc314 \/ Rc334 \/ Rc337 \/ Rc338 \/ Rc342 \/ Gm245
    \/ St259 \/ St264 \/ St268 \/ St275 \/ St279 \/ St286

Next == NewCall \/ NewSteps \/ Calls \/ Steps

Spec == Init /\ [][Next]_vars

----------------------------------------------------------------------------
(* The free functions validate_clocking, frequency_to_ftw, phase_to_pow and  *)
(* amplitude_to_acr, called on their own: a call is drawn with its           *)
(* arguments, then the function is applied.  Every argument is a value an    *)
(* f32 holds exactly.                                                        *)

\* The result of a call that has not been computed yet.
Pending == [tag |-> "none", err |-> "", val |-> <<>>]

\* Reference frequencies in Hz, around every threshold of validate_clocking.
ReferenceInputs ==
    {999999, 1000000, 9999999, 10000000, 12750000, 19615384, 25000000, 32000000,
     40000000, 64000000, 99999992, 100000000, 160000000, 160000016, 254999984,
     255000000, 500000000, 500000032}

\* (reference, multiplier) pairs whose product does not exceed HzLimit.
ClockingInputs ==
    {c \in ReferenceInputs \X (0..MaxMultiplier) :
        c[2] = 0 \/ c[1] <= HzLimit \div c[2]}

\* (dds_frequency, system_clock_frequency) pairs in Hz, around the Nyquist limit.
FtwInputs ==
    {-1, 0, 1, 10000000, 33333332, 50000000, 50000004, 250000000, 250000032}
        \X {100000000, 500000000}

\* Phases in units of 1/PhaseScale turn: below one turn, between one and four
\* turns, four turns and more.
TurnInputs ==
    {0, 1, 2, 16385, PhaseScale - 1, PhaseScale, PhaseScale + 16384,
     4 * PhaseScale - 1, 4 * PhaseScale, 4 * PhaseScale + 16384, 5 * PhaseScale + 3}

\* Amplitudes in units of 1/AmplitudeScale of full scale, inside and outside [0, 1].
ScaleInputs ==
    {-1, 0, 1, 2, 1025, AmplitudeScale - 2, AmplitudeScale - 1, AmplitudeScale,
     AmplitudeScale + 1, 2 * AmplitudeScale}

\* The calls that can be drawn.
PendingCalls ==
    {[fn |-> "validate_clocking", in |-> c, out |-> Pending] : c \in ClockingInputs}
    \cup {[fn |-> "frequency_to_ftw", in |-> c, out |-> Pending] : c \in FtwInputs}
    \cup {[fn |-> "phase_to_pow", in |-> <<t>>, out |-> Pending] : t \in TurnInputs}
    \cup {[fn |-> "amplitude_to_acr", in |-> <<a>>, out |-> Pending] : a \in ScaleInputs}

CodecInit ==
    /\ ControllerInit
    /\ chip = ChipReset
    /\ call \in PendingCalls
    /\ serializer = NoSerializer
    /\ qspiInterface = NoQspiInterface
    /\ dds = NoDds
    /\ attenuators = <<>>

\* The pending call of fn returns out.
Return(fn, out) ==
    /\ call.fn = fn
    /\ call.out = Pending
    /\ call' = [call EXCEPT !.out = out]
    /\ UNCHANGED <<status, ad9959, pc, op, args, locals, result, trace, chip,
                   interfaceMode, pins, glitches, serializer, qspiInterface,
                   others>>

ValidateClockingCall ==
    call.fn = "validate_clocking"
        /\ Return("validate_clocking", validate_clocking(call.in[1], call.in[2]))

FrequencyToFtwCall ==
    call.fn = "frequency_to_ftw"
        /\ Return("frequency_to_ftw", frequency_to_ftw(call.in[1], call.in[2]))

PhaseToPowCall ==
    call.fn = "phase_to_pow" /\ Return("phase_to_pow", phase_to_pow(call.in[1]))

AmplitudeToAcrCall ==
    call.fn = "amplitude_to_acr"
        /\ Return("amplitude_to_acr", amplitude_to_acr(call.in[1]))

CodecNext ==
    ValidateClockingCall \/ FrequencyToFtwCall \/ PhaseToPowCall \/ AmplitudeToAcrCall

CodecSpec == CodecInit /\ [][CodecNext]_vars

----------------------------------------------------------------------------
(* ProfileSerializer: a 32-byte buffer of register-write records with a      *)
(* cursor.  A slice index outside the buffer makes the program panic; the    *)
(* serializer is then never used again.  An Option is the empty sequence     *)
(* (None) or a sequence of one value (Some); a u32 is given by its four      *)
(* big-endian bytes.                                                         *)

\* The size of ProfileSerializer::data.
BufferSize == 32

\* Arguments update_channels is called with.
FtwOptions == {<<>>, <<<<18, 52, 86, 120>>>>}
PowOptions == {<<>>, <<4660>>}
AcrOptions == {<<>>, <<<<171, 0, 19, 255>>>>}

\* The modes a serializer is made for and the channels it updates.
SerializerModes == {SingleBitTwoWire, FourBitSerial}
SerializerChannels == {ChannelONE}

\* (reference_clock_frequency, multiplier) pairs set_system_clock is called with
\* in a batch: one validate_clocking accepts, one it rejects.
SystemClockInputs == {<<100000000, 5>>, <<25000000, 7>>}

\* pub fn new
ProfileSerializerNew(mode) ==
    [data |-> [i \in 1..BufferSize |-> 0], index |-> 0, mode |-> mode,
     panicked |-> FALSE, calls |-> <<>>]

\* Mutant of add_write: nothing stops a record at the end of the buffer; the
\* bytes past it are lost and the cursor advances.
add_write_unchecked(s, register, value) ==
    [s EXCEPT
        !.data = [i \in 1..BufferSize |->
                    IF i = s.index + 1 THEN RegisterAddress[register]
                    ELSE IF i > s.index + 1 /\ i <= s.index + 1 + Len(value)
                    THEN value[i - s.index - 1]
                    ELSE s.data[i]],
        !.index = s.index + Len(value) + 1]

\* fn add_write: `self.data[self.index..]` and `data[0]` panic at the end of
\* the buffer, `data[1..][..value.len()]` panics, after the address byte is
\* stored, when the value does not fit.  Nothing happens after a panic.
add_write(s, register, value) ==
    IF s.panicked THEN s
    ELSE IF s.index >= BufferSize THEN [s EXCEPT !.panicked = TRUE]
    ELSE IF Len(value) > BufferSize - s.index - 1
    THEN [s EXCEPT !.data[s.index + 1] = RegisterAddress[register], !.panicked = TRUE]
    ELSE [s EXCEPT
            !.data = [i \in 1..BufferSize |->
                        IF i = s.index + 1 THEN RegisterAddress[register]
                        ELSE IF i > s.index + 1 /\ i <= s.index + 1 + Len(value)
                        THEN value[i - s.index - 1]
                        ELSE s.data[i]],
            !.index = s.index + Len(value) + 1]

\* Mutant of update_channels: the phase word is written before the tuning word.
update_channels_pow_first(s, channels, ftw, pow, acr) ==
    LET s1 == add_write(s, "CSR", <<BitOr(s.mode, channels)>>)
        s2 == IF pow # <<>> THEN add_write(s1, "CPOW0", U16ToBe(pow[1])) ELSE s1
        s3 == IF ftw # <<>> THEN add_write(s2, "CFTW0", ftw[1]) ELSE s2
    IN  IF acr # <<>> THEN add_write(s3, "ACR", SubSeq(acr[1], 2, 4)) ELSE s3

\* pub fn update_channels
update_channels(s, channels, ftw, pow, acr) ==
    LET s1 == add_write(s, "CSR", <<BitOr(s.mode, channels)>>)
        s2 == IF ftw # <<>> THEN add_write(s1, "CFTW0", ftw[1]) ELSE s1
        s3 == IF pow # <<>> THEN add_write(s2, "CPOW0", U16ToBe(pow[1])) ELSE s2
    IN  IF acr # <<>> THEN add_write(s3, "ACR", SubSeq(acr[1], 2, 4)) ELSE s3

\* Mutant of set_system_clock: nothing is written for a clocking that
\* validate_clocking rejects.
set_system_clock_validated(s, reference_clock_frequency, multiplier) ==
    IF validate_clocking(reference_clock_frequency, multiplier).tag = "Err" THEN s
    ELSE add_write(s, "FR1",
                   ClockFr1(<<0, 0, 0>>, multiplier,
                            F32Round(reference_clock_frequency * multiplier)))

\* pub fn set_system_clock: the record written; the frequency returned is
\* reference_clock_frequency * multiplier in f32.
set_system_clock(s, reference_clock_frequency, multiplier) ==
    LET frequency == F32Round(reference_clock_frequency * multiplier)
        fr1 == <<SetBit(SetBits(0, 2, 6, multiplier), 7, frequency > 200000000), 0, 0>>
    IN  add_write(s, "FR1", fr1)

\* Mutant of pad: the CSR record is considered before the LSRR record.
pad_csr_first(s) ==
    LET s1 == IF (s.index \div 2) % 2 # 0 THEN add_write(s, "CSR", <<s.mode>>) ELSE s
    IN  IF s1.index % 2 # 0 THEN add_write(s1, "LSRR", <<0, 0>>) ELSE s1

\* fn pad
pad(s) ==
    LET s1 == IF s.index % 2 # 0 THEN add_write(s, "LSRR", <<0, 0>>) ELSE s
    IN  IF (s1.index \div 2) % 2 # 0 THEN add_write(s1, "CSR", <<s1.mode>>) ELSE s1

\* Mutant of finalize: the slice ends at the cursor pad found.
finalize_before_pad(s) == SubSeq(pad(s).data, 1, s.index)

\* pub fn finalize: the words returned, as the bytes they are made of.  The
\* array data follows the two word-sized fields of the struct, so that the
\* slice cast to words starts at a word boundary.
finalize(s) == SubSeq(pad(s).data, 1, pad(s).index)

\* What a method that panicked returns: nothing.
Panic == [tag |-> "panic", err |-> "", val |-> <<>>]

\* A method can be called: a serializer exists, it has not panicked, and the
\* batch is not at its bound.
Usable ==
    /\ serializer.data # <<>>
    /\ ~serializer.panicked
    /\ Len(serializer.calls) < MaxBatch

\* The method fn is called with the arguments in, leaves the serializer as s
\* and returns out.
Method(fn, in, s, out) ==
    /\ serializer' = [s EXCEPT !.calls = Append(serializer.calls,
                           [fn |-> fn, in |-> in, at |-> serializer.index])]
    /\ call' = [fn |-> fn, in |-> in, out |-> IF s.panicked THEN Panic ELSE out]
    /\ UNCHANGED <<status, ad9959, pc, op, args, locals, result, trace, chip,
                   interfaceMode, pins, glitches, qspiInterface, others>>

ProfileSerializerNewCall ==
    /\ serializer = NoSerializer
    /\ \E mode \in SerializerModes :
           /\ serializer' = ProfileSerializerNew(mode)
           /\ call' = [fn |-> "new", in |-> <<mode>>, out |-> Ok(<<>>)]
    /\ UNCHANGED <<status, ad9959, pc, op, args, locals, result, trace, chip,
                   interfaceMode, pins, glitches, qspiInterface, others>>

UpdateChannelsCall ==
    /\ Usable
    /\ \E c \in SerializerChannels, f \in FtwOptions, p \in PowOptions,
          a \in AcrOptions :
           Method("update_channels", <<c, f, p, a>>,
                  update_channels(serializer, c, f, p, a), Ok(<<>>))

SetSystemClockCall ==
    /\ Usable
    /\ \E c \in SystemClockInputs :
           Method("set_system_clock", c, set_system_clock(serializer, c[1], c[2]),
                  Ok(<<F32Round(c[1] * c[2])>>))

\* Mutant of FinalizeCall: the cursor is back at 0 once the words are handed out.
FinalizeCallResetting ==
    /\ Usable
    /\ Method("finalize", <<>>, [pad(serializer) EXCEPT !.index = 0],
              Ok(finalize(serializer)))

FinalizeCall ==
    /\ Usable
    /\ Method("finalize", <<>>, pad(serializer), Ok(finalize(serializer)))

\* set_system_clock on a serializer just made, with arguments drawn from all
\* multipliers the five-bit field holds.
SystemClockReferences == {500000, 15384616, 25000000, 50000000, 64000000}
SystemClockCalls ==
    {[fn |-> "set_system_clock", in |-> <<r, m>>, out |-> Pending] :
        r \in SystemClockReferences, m \in 0..(Pow2(5) - 1)}

SetSystemClockOnNew ==
    /\ call \in SystemClockCalls
    /\ serializer' = set_system_clock(ProfileSerializerNew(FourBitSerial),
                                      call.in[1], call.in[2])
    /\ call' = [call EXCEPT !.out = Ok(<<F32Round(call.in[1] * call.in[2])>>)]
    /\ UNCHANGED <<status, ad9959, pc, op, args, locals, result, trace, chip,
                   interfaceMode, pins, glitches, qspiInterface, others>>

SystemClockInit ==
    /\ ControllerInit
    /\ chip = ChipReset
    /\ call \in SystemClockCalls
    /\ serializer = NoSerializer
    /\ qspiInterface = NoQspiInterface
    /\ dds = NoDds
    /\ attenuators = <<>>

SystemClockSpec == SystemClockInit /\ [][SetSystemClockOnNew]_vars

SerializerInit ==
    /\ ControllerInit
    /\ chip = ChipReset
    /\ call = NoCall
    /\ serializer = NoSerializer
    /\ qspiInterface = NoQspiInterface
    /\ dds = NoDds
    /\ attenuators = <<>>

SerializerNext ==
    ProfileSerializerNewCall \/ UpdateChannelsCall \/ SetSystemClockCall \/ FinalizeCall

SerializerSpec == SerializerInit /\ [][SerializerNext]_vars

----------------------------------------------------------------------------
(* QspiInterface: the adapter between the driver's Interface trait and the   *)
(* QSPI peripheral, which always runs four bits wide.  The peripheral is the *)
(* environment: each of its calls succeeds or fails, and the calls made by   *)
(* a method are kept, with the address and bytes they were given, until its *)
(* caller has taken the result.                                              *)

\* The size of encoded_data.
EncodedSize == 12

\* What a call of the peripheral returns: Ok or a QspiError.
QspiOutcomes == {"ok", "QspiError"}

\* Arguments of write and read: addresses with and without the top bit,
\* payloads of 0..MaxPayload bytes, destinations of one or two bytes.
AddressInputs == {0, 1, 42, 85, 127, 128, 213}
PayloadBytes == {0, 1, 90, 128, 165, 255}
PayloadInputs == UNION {[1..n -> PayloadBytes] : n \in 0..MaxPayload}
DestInputs == UNION {[1..n -> {0, 165}] : n \in 1..2}

\* One call of the peripheral.
Transaction(o, addr, data, res) == [op |-> o, addr |-> addr, data |-> data, res |-> res]

\* `?` on a Result of the peripheral: Error::from(QspiError).
QspiResult(r, v) == IF r = "ok" THEN Ok(v) ELSE Err("Qspi")

\* Mutant of offset: the odd bits go to the line next to the even ones.
offset_adjacent(bit) == IF bit % 2 # 0 THEN 1 ELSE 0

\* let offset
offset(bit) == IF bit % 2 # 0 THEN 4 ELSE 0

\* Mutant of byte_position: the least significant bits come first.
byte_position_lsb_first(bit) == bit \div 2

\* let byte_position
byte_position(bit) == 3 - (bit \div 2)

\* Mutant of ExceedsEncoded: the payload is compared with the whole buffer.
ExceedsBuffer(data) == (Len(data) * 4) > EncodedSize

\* The payload is too long for encoded_data.
ExceedsEncoded(data) == (Len(data) * 4) > (EncodedSize - 4)

\* The bits of `byte` that go to the byte at `position` of their group of four,
\* from bit `bit` on.
RECURSIVE EncodeBits(_, _, _)
EncodeBits(byte, position, bit) ==
    IF bit = 8 THEN 0
    ELSE BitOr(IF byte_position(bit) = position /\ GetBit(byte, bit)
               THEN Pow2(offset(bit)) ELSE 0,
               EncodeBits(byte, position, bit + 1))

\* encoded_data after the two loops, indexed from 0 as in the code.
encoded_data(addr, data) ==
    [j \in 0..(EncodedSize - 1) |->
        IF j < 4 THEN EncodeBits(addr, j, 0)
        ELSE IF j \div 4 <= Len(data) THEN EncodeBits(data[j \div 4], j % 4, 0)
        ELSE 0]

\* The indexes of encoded_data the two loops store to, and the end of the
\* slice that is transmitted.
EncodedIndexes(addr, data) ==
    {byte_position(bit) : bit \in {b \in 0..7 : GetBit(addr, b)}}
    \cup UNION {{i * 4 + byte_position(bit) : bit \in {b \in 0..7 : GetBit(data[i], b)}} :
                  i \in 1..Len(data)}
end_index(data) == (1 + Len(data)) * 4

\* The arm of write for SingleBitTwoWire: an index outside encoded_data panics.
EncodedWrite(addr, data, r) ==
    IF ExceedsEncoded(data) THEN [out |-> Err("Bounds"), qspi |-> <<>>]
    ELSE IF ~(EncodedIndexes(addr, data) \subseteq 0..(EncodedSize - 1))
            \/ end_index(data) > EncodedSize
    THEN [out |-> Panic, qspi |-> <<>>]
    ELSE LET encoded == encoded_data(addr, data)
             encoded_payload == [k \in 1..(end_index(data) - 1) |-> encoded[k]]
         IN  [out |-> QspiResult(r, <<>>),
              qspi |-> <<Transaction("write", encoded[0], encoded_payload, r)>>]

\* Mutant of QspiInterfaceWrite: the mode is looked at before the address.
QspiInterfaceWriteModeFirst(q, addr, data, r) ==
    IF q.mode = SingleBitTwoWire /\ ExceedsEncoded(data)
    THEN [out |-> Err("Bounds"), qspi |-> <<>>]
    ELSE IF q.mode \notin {SingleBitTwoWire, FourBitSerial} \/ q.streaming
    THEN [out |-> Err("InvalidState"), qspi |-> <<>>]
    ELSE IF BitAnd(addr, 128) # 0 THEN [out |-> Err("InvalidAddress"), qspi |-> <<>>]
    ELSE IF q.mode = SingleBitTwoWire THEN EncodedWrite(addr, data, r)
    ELSE [out |-> QspiResult(r, <<>>), qspi |-> <<Transaction("write", addr, data, r)>>]

\* Mutant of QspiInterfaceWrite: a stream does not stop a write.
QspiInterfaceWriteWhileStreaming(q, addr, data, r) ==
    IF BitAnd(addr, 128) # 0 THEN [out |-> Err("InvalidAddress"), qspi |-> <<>>]
    ELSE IF q.mode = SingleBitTwoWire THEN EncodedWrite(addr, data, r)
    ELSE IF q.mode = FourBitSerial
    THEN [out |-> QspiResult(r, <<>>), qspi |-> <<Transaction("write", addr, data, r)>>]
    ELSE [out |-> Err("InvalidState"), qspi |-> <<>>]

\* fn write of the interface q, the peripheral answering r: what it returns
\* and the calls of the peripheral it makes.
QspiInterfaceWrite(q, addr, data, r) ==
    IF BitAnd(addr, 128) # 0 THEN [out |-> Err("InvalidAddress"), qspi |-> <<>>]
    ELSE IF q.mode = SingleBitTwoWire THEN EncodedWrite(addr, data, r)
    ELSE IF q.mode = FourBitSerial
    THEN IF q.streaming THEN [out |-> Err("InvalidState"), qspi |-> <<>>]
         ELSE [out |-> QspiResult(r, <<>>),
               qspi |-> <<Transaction("write", addr, data, r)>>]
    ELSE [out |-> Err("InvalidState"), qspi |-> <<>>]

\* Mutant of QspiInterfaceRead: the address is passed on as it is.
QspiInterfaceReadPlain(q, addr, dest, r) ==
    IF BitAnd(addr, 128) # 0 THEN [out |-> Err("InvalidAddress"), qspi |-> <<>>]
    ELSE IF q.mode # FourBitSerial THEN [out |-> Err("InvalidState"), qspi |-> <<>>]
    ELSE [out |-> QspiResult(r, dest),
          qspi |-> <<Transaction("read", addr, dest, r)>>]

\* Mutant of QspiInterfaceRead: a read is passed to the peripheral in any mode.
QspiInterfaceReadAnyMode(q, addr, dest, r) ==
    IF BitAnd(addr, 128) # 0 THEN [out |-> Err("InvalidAddress"), qspi |-> <<>>]
    ELSE [out |-> QspiResult(r, dest),
          qspi |-> <<Transaction("read", BitOr(128, addr), dest, r)>>]

\* fn read of the interface q, the peripheral answering r and filling dest.
QspiInterfaceRead(q, addr, dest, r) ==
    IF BitAnd(addr, 128) # 0 THEN [out |-> Err("InvalidAddress"), qspi |-> <<>>]
    ELSE IF q.mode # FourBitSerial THEN [out |-> Err("InvalidState"), qspi |-> <<>>]
    ELSE [out |-> QspiResult(r, dest),
          qspi |-> <<Transaction("read", BitOr(128, addr), dest, r)>>]

\* A method of the interface is called with `in`, returns `out` and leaves
\* the interface as q.
QspiMethod(fn, in, out, q) ==
    /\ qspiInterface' = q
    /\ call' = [fn |-> fn, in |-> in, out |-> out]
    /\ UNCHANGED <<status, ad9959, pc, op, args, locals, result, trace, chip,
                   interfaceMode, pins, glitches, serializer, others>>

\* A method of the interface can be called: the interface has been made and
\* no call is running.
QspiUsable == call = NoCall /\ qspiInterface.made

\* pub fn new: the peripheral is set to four bits; the interface starts in
\* SingleBitTwoWire, not streaming.
QspiInterfaceNewCall ==
    /\ call = NoCall
    /\ ~qspiInterface.made
    /\ \E r \in QspiOutcomes :
           QspiMethod("new", <<>>, QspiResult(r, <<>>),
                      [made |-> r = "ok",
                       qspi |-> <<Transaction("configure_mode", 0, <<>>, r)>>,
                       mode |-> SingleBitTwoWire, streaming |-> FALSE])

\* pub fn start_stream
StartStreamCall ==
    /\ QspiUsable
    /\ \E r \in QspiOutcomes :
           QspiMethod("start_stream", <<>>, QspiResult(r, <<>>),
                      IF r # "ok"
                      THEN [qspiInterface EXCEPT
                              !.qspi = <<Transaction("is_busy", 0, <<>>, r)>>]
                      ELSE [qspiInterface EXCEPT
                              !.qspi = <<Transaction("is_busy", 0, <<>>, r),
                                         Transaction("stream", 0, <<>>, "ok")>>,
                              !.streaming = TRUE])

\* fn configure_mode
QspiConfigureModeCall ==
    /\ QspiUsable
    /\ \E mode \in Modes :
           QspiMethod("configure_mode", <<mode>>, Ok(<<>>),
                      [qspiInterface EXCEPT !.mode = mode, !.qspi = <<>>])

QspiWriteCall ==
    /\ QspiUsable
    /\ \E addr \in AddressInputs, data \in PayloadInputs, r \in QspiOutcomes :
           LET w == QspiInterfaceWrite(qspiInterface, addr, data, r)
           IN  QspiMethod("write", <<addr, data>>, w.out,
                          [qspiInterface EXCEPT !.qspi = w.qspi])

QspiReadCall ==
    /\ QspiUsable
    /\ \E addr \in AddressInputs, dest \in DestInputs, r \in QspiOutcomes :
           LET w == QspiInterfaceRead(qspiInterface, addr, dest, r)
           IN  QspiMethod("read", <<addr, Len(dest)>>, w.out,
                          [qspiInterface EXCEPT !.qspi = w.qspi])

\* The caller takes the result; the next method can be called.
QspiReturn ==
    /\ call # NoCall
    /\ call' = NoCall
    /\ qspiInterface' = [qspiInterface EXCEPT !.qspi = <<>>]
    /\ UNCHANGED <<status, ad9959, pc, op, args, locals, result, trace, chip,
                   interfaceMode, pins, glitches, serializer, others>>

QspiInit ==
    /\ ControllerInit
    /\ chip = ChipReset
    /\ call = NoCall
    /\ serializer = NoSerializer
    /\ qspiInterface = NoQspiInterface
    /\ dds = NoDds
    /\ attenuators = <<>>

QspiNext ==
    \/ QspiInterfaceNewCall
    \/ StartStreamCall
    \/ QspiConfigureModeCall
    \/ QspiWriteCall
    \/ QspiReadCall
    \/ QspiReturn

QspiSpec == QspiInit /\ [][QspiNext]_vars

----------------------------------------------------------------------------
(* The setters, the getters and self_test on a chip with per-channel        *)
(* registers.  A write of CFTW0, CPOW0 or ACR goes to every channel enabled  *)
(* in CSR; a read delivers the register of the enabled channel.  A whole     *)
(* operation is one action; the environment decides which of its transport  *)
(* calls fails, if any.                                                      *)

\* Channel sets, phases, amplitudes and frequencies of the calls: two single
\* channels and both; a quarter turn and four turns; half scale, full scale
\* and above; 10 MHz and 260 MHz at a system clock of 100 MHz.
DdsChannelInputs == {ChannelONE, ChannelTWO, BitOr(ChannelONE, ChannelTWO)}
DdsPhaseInputs == {16385, 4 * PhaseScale + 3}
DdsAmplitudeInputs == {1025, AmplitudeScale, AmplitudeScale + 1}
DdsFrequencyInputs == {10000000, 260000000}

\* The register each setter and getter works on.
ChannelRegister ==
    [set_phase |-> "CPOW0", get_phase |-> "CPOW0",
     set_amplitude |-> "ACR", get_amplitude |-> "ACR",
     set_frequency |-> "CFTW0", get_frequency |-> "CFTW0"]

\* The channels enabled by the CSR byte csr.
EnabledChannels(csr) == {c \in ChipChannels : BitAnd(csr, c) # 0}

\* The chip after a register write.
DdsWrite(d, reg, data) ==
    IF reg = "CSR" THEN [d EXCEPT !.csr = data[1]]
    ELSE IF reg = "FR1" THEN [d EXCEPT !.fr1 = data]
    ELSE [d EXCEPT ![reg] = [c \in ChipChannels |->
                                IF c \in EnabledChannels(d.csr) THEN data ELSE @[c]]]

\* What a read of reg may deliver: the register of the enabled channel; with
\* several channels enabled that of one of them, with none that of any.
DdsRead(d, reg) ==
    IF reg = "CSR" THEN {<<d.csr>>}
    ELSE IF reg = "FR1" THEN {d.fr1}
    ELSE IF EnabledChannels(d.csr) = {} THEN {d[reg][c] : c \in ChipChannels}
    ELSE {d[reg][c] : c \in EnabledChannels(d.csr)}

\* The chip once the CSR selects `channel`.
Selected(d, channel) ==
    DdsWrite(d, "CSR", <<ChannelCsr(ad9959.communication_mode, channel)>>)

\* What an operation returns and the chip it leaves.
Outcome(d, out) == [dds |-> d, out |-> out]

\* Mutant of modify_channel: the channels enabled before stay enabled.
modify_channel_keeping(d, channel, register, data, fail) ==
    LET d1 == DdsWrite(d, "CSR", <<BitOr(ChannelCsr(ad9959.communication_mode, channel),
                                        d.csr - (d.csr % 16))>>)
    IN  IF fail = 1 THEN Outcome(d, Err(InterfaceError("write")))
        ELSE IF fail = 2 THEN Outcome(d1, Err(InterfaceError("write")))
        ELSE Outcome(DdsWrite(d1, register, data), Ok(<<>>))

\* fn modify_channel on the chip d; the transport call number `fail` fails
\* (0: none does).
modify_channel(d, channel, register, data, fail) ==
    LET d1 == Selected(d, channel)
    IN  IF fail = 1 THEN Outcome(d, Err(InterfaceError("write")))
        ELSE IF fail = 2 THEN Outcome(d1, Err(InterfaceError("write")))
        ELSE Outcome(DdsWrite(d1, register, data), Ok(<<>>))

\* Mutant of read_channel: the CSR is not restored, and the register is read
\* before the channel is selected.
read_channel_unselected(d, channel, register, data, fail) ==
    IF fail \in 1..4 THEN Outcome(d, Err(InterfaceError("read")))
    ELSE Outcome(Selected(d, channel),
                 Ok(CHOOSE x \in DdsRead(d, register) : TRUE))

\* fn read_channel on the chip d, the register read delivering `data`.
read_channel(d, channel, register, data, fail) ==
    LET csr == CHOOSE x \in DdsRead(d, "CSR") : TRUE
        d1 == Selected(d, channel)
    IN  IF fail = 1 THEN Outcome(d, Err(InterfaceError("read")))
        ELSE IF fail = 2 THEN Outcome(d, Err(InterfaceError("write")))
        ELSE IF fail = 3 THEN Outcome(d1, Err(InterfaceError("read")))
        ELSE IF fail = 4 THEN Outcome(d1, Err(InterfaceError("write")))
        ELSE Outcome(DdsWrite(d1, "CSR", csr), Ok(data))

\* pub fn self_test on the chip d.
self_test(d, fail) ==
    LET old_csr == d.csr
        d1 == DdsWrite(d, "CSR", <<SetBits(old_csr, 4, 7, 15)>>)
        d2 == DdsWrite(d1, "CSR", <<SetBits(d1.csr, 4, 7, 0)>>)
    IN  IF fail = 1 THEN Outcome(d, Err(InterfaceError("read")))
        ELSE IF fail = 2 THEN Outcome(d, Err(InterfaceError("write")))
        ELSE IF fail = 3 THEN Outcome(d1, Err(InterfaceError("read")))
        ELSE IF GetBits(d1.csr, 4, 7) # 15 THEN Outcome(d1, Ok(<<0>>))
        ELSE IF fail = 4 THEN Outcome(d1, Err(InterfaceError("write")))
        ELSE IF fail = 5 THEN Outcome(d2, Err(InterfaceError("read")))
        ELSE IF GetBits(d2.csr, 4, 7) # 0 THEN Outcome(d2, Ok(<<0>>))
        ELSE IF fail = 6 THEN Outcome(d2, Err(InterfaceError("write")))
        ELSE Outcome(DdsWrite(d2, "CSR", <<old_csr>>), Ok(<<1>>))

\* The chip d with what the setter of `register` returned, if it returned Ok,
\* noted for every channel of `channel`.
Noted(d, channel, register, out) ==
    [d EXCEPT !.set = [c \in ChipChannels |->
        IF BitAnd(channel, c) # 0 /\ out.tag = "Ok"
        THEN [@[c] EXCEPT ![register] = out.val]
        ELSE @[c]]]

\* An operation on the chip model is called with `in`, returns w.out and
\* leaves the chip as w.dds.
DdsMethod(fn, in, w) ==
    /\ call' = [fn |-> fn, in |-> in, out |-> w.out]
    /\ dds' = w.dds
    /\ UNCHANGED <<status, ad9959, pc, op, args, locals, result, trace, chip,
                   interfaceMode, pins, glitches, serializer, qspiInterface,
                   attenuators>>

\* A setter: `code` is what the conversion returned, data the bytes of the
\* register and ret the value returned after modify_channel.
DdsSet(fn, channel, input, code, data, ret, fail) ==
    LET w == IF code.tag = "Err" THEN Outcome(dds, code)
             ELSE modify_channel(dds, channel, ChannelRegister[fn], data, fail)
        out == IF w.out.tag = "Ok" THEN Ok(ret) ELSE w.out
    IN  DdsMethod(fn, <<channel, input>>,
                  Outcome(Noted(w.dds, channel, ChannelRegister[fn], out), out))

\* pub fn set_phase
DdsSetPhaseCall ==
    /\ call = NoCall
    /\ \E channel \in DdsChannelInputs, phase_turns \in DdsPhaseInputs, fail \in 0..2 :
           LET phase_offset == phase_to_pow(phase_turns)
           IN  DdsSet("set_phase", channel, phase_turns, phase_offset,
                      U16ToBe(phase_offset.val[1]), phase_offset.val, fail)

\* pub fn set_amplitude
DdsSetAmplitudeCall ==
    /\ call = NoCall
    /\ \E channel \in DdsChannelInputs, amplitude \in DdsAmplitudeInputs, fail \in 0..2 :
           LET acr == amplitude_to_acr(amplitude)
               word == IF acr.tag = "Ok" THEN acr.val[1] ELSE 0
           IN  DdsSet("set_amplitude", channel, amplitude, acr,
                      U24ToBe(word), <<AcrAmplitude(word)>>, fail)

\* pub fn set_frequency
DdsSetFrequencyCall ==
    /\ call = NoCall
    /\ \E channel \in DdsChannelInputs, frequency \in DdsFrequencyInputs, fail \in 0..2 :
           LET tuning_word == frequency_to_ftw(frequency, system_clock_frequency)
           IN  DdsSet("set_frequency", channel, frequency, tuning_word,
                      tuning_word.val, tuning_word.val, fail)

\* pub fn get_phase / get_amplitude / get_frequency
DdsGetCall ==
    /\ call = NoCall
    /\ \E fn \in {"get_phase", "get_amplitude", "get_frequency"},
          channel \in DdsChannelInputs, fail \in 0..4 :
           \E data \in DdsRead(Selected(dds, channel), ChannelRegister[fn]) :
               LET w == read_channel(dds, channel, ChannelRegister[fn], data, fail)
               IN  DdsMethod(fn, <<channel>>,
                             Outcome(w.dds, IF w.out.tag = "Ok"
                                            THEN Ok(Decode(fn, w.out.val))
                                            ELSE w.out))

\* pub fn self_test
DdsSelfTestCall ==
    /\ call = NoCall
    /\ \E fail \in 0..6 : DdsMethod("self_test", <<>>, self_test(dds, fail))

\* The caller takes the result; the next operation can be called.
DdsReturn ==
    /\ call # NoCall
    /\ call' = NoCall
    /\ UNCHANGED <<status, ad9959, pc, op, args, locals, result, trace, chip,
                   interfaceMode, pins, glitches, serializer, qspiInterface, others>>

\* A controller made for FourBitSerial with a reference of 25 MHz multiplied
\* by 4, on a chip that has been reset.
ChannelInit ==
    /\ status = "Ready"
    /\ ad9959 = [reference_clock_frequency |-> 25000000, system_clock_multiplier |-> 4,
                 communication_mode |-> FourBitSerial]
    /\ pc = "idle"
    /\ op = "new"
    /\ args = [desired_mode |-> FourBitSerial, clock_frequency |-> 25000000,
               multiplier |-> 4]
    /\ locals = NoLocals
    /\ result = Ok(<<>>)
    /\ trace = <<>>
    /\ chip = ChipReset
    /\ interfaceMode = FourBitSerial
    /\ pins = [reset_pin |-> 0, io_update |-> 0]
    /\ glitches = [CSR |-> 0, FR1 |-> 0]
    /\ call = NoCall
    /\ serializer = NoSerializer
    /\ qspiInterface = NoQspiInterface
    /\ dds = [NoDds EXCEPT !.csr = BitOr(ChannelALL, FourBitSerial),
                         !.fr1 = <<4 * 4, 0, 0>>]
    /\ attenuators = <<>>

ChannelNext ==
    \/ DdsSetPhaseCall
    \/ DdsSetAmplitudeCall
    \/ DdsSetFrequencyCall
    \/ DdsGetCall
    \/ DdsSelfTestCall
    \/ DdsReturn

ChannelSpec == ChannelInit /\ [][ChannelNext]_vars

----------------------------------------------------------------------------
(* The digital attenuators (pounder/attenuators.rs).  An attenuation is an  *)
(* integer in units of 1/AttenuationScale dB, one bit finer than the code   *)
(* of the attenuator, so that the truncation of `as u8` is visible.         *)

AttenuationScale == 4

\* The attenuations set_attenuations is called with: below zero, zero,
\* 0.75 dB, 15.75 dB, 31.5 dB and 31.75 dB.
AttenuationInputs == {-1, 0, 3, 63, 126, 127}

\* enum Channel, as the index of the attenuator.
AttenuatorChannels == 0..3

\* What transfer_attenuators and latch_attenuators can answer.
TransferOutcomes == {"ok", "Spi"}
LatchOutcomes == {"ok", "I2c"}

\* `(0.0..=31.5).contains(att)`
AttenuationInRange(att) == att >= 0 /\ 2 * att <= 63 * AttenuationScale

\* `(att * 2.0) as u8`
AttenuationCode(att) == (att * 2) \div AttenuationScale

\* `!(attenuation_codes[i] << 2)` on u8
AttenuatorByte(code) == 255 - ((code * 4) % 256)

\* One call of a required method of the trait.
AttenuatorCall(fn, in, res) == [fn |-> fn, in |-> in, res |-> res]

\* Mutant of set_attenuations: the output is latched whatever the transfer
\* answered.
set_attenuations_latching(channels, attenuations, t, l) ==
    IF \E i \in 1..4 : ~AttenuationInRange(attenuations[i])
    THEN [out |-> Err("Bounds"), calls |-> <<>>]
    ELSE LET attenuation_codes == [i \in 1..4 |-> AttenuationCode(attenuations[i])]
             bytes == [i \in 1..4 |-> AttenuatorByte(attenuation_codes[i])]
             made == <<AttenuatorCall("transfer_attenuators", bytes, t),
                       AttenuatorCall("latch_attenuators", <<channels>>, l)>>
         IN  IF t # "ok" THEN [out |-> Err(t), calls |-> made]
             ELSE IF l # "ok" THEN [out |-> Err(l), calls |-> made]
             ELSE [out |-> Ok([i \in 1..4 |->
                                  attenuation_codes[i] * (AttenuationScale \div 2)]),
                   calls |-> made]

\* fn set_attenuations, transfer_attenuators answering t and latch_attenuators
\* l: what it returns and the calls it makes.  The loop returns Bounds at the
\* first attenuation out of range, before any call.
set_attenuations(channels, attenuations, t, l) ==
    IF \E i \in 1..4 : ~AttenuationInRange(attenuations[i])
    THEN [out |-> Err("Bounds"), calls |-> <<>>]
    ELSE LET attenuation_codes == [i \in 1..4 |-> AttenuationCode(attenuations[i])]
             bytes == [i \in 1..4 |-> AttenuatorByte(attenuation_codes[i])]
             transfer == AttenuatorCall("transfer_attenuators", bytes, t)
             latch == AttenuatorCall("latch_attenuators", <<channels>>, l)
         IN  IF t # "ok" THEN [out |-> Err(t), calls |-> <<transfer>>]
             ELSE IF l # "ok" THEN [out |-> Err(l), calls |-> <<transfer, latch>>]
             ELSE [out |-> Ok([i \in 1..4 |->
                                  attenuation_codes[i] * (AttenuationScale \div 2)]),
                   calls |-> <<transfer, latch>>]

SetAttenuationsCall ==
    /\ call = NoCall
    /\ \E channels \in AttenuatorChannels, attenuations \in [1..4 -> AttenuationInputs],
          t \in TransferOutcomes, l \in LatchOutcomes :
           LET w == set_attenuations(channels, attenuations, t, l)
           IN  /\ call' = [fn |-> "set_attenuations", in |-> <<channels, attenuations>>,
                            out |-> w.out]
               /\ attenuators' = w.calls
    /\ UNCHANGED <<status, ad9959, pc, op, args, locals, result, trace, chip,
                   interfaceMode, pins, glitches, serializer, qspiInterface, dds>>

\* The caller takes the result; the next call can be made.
AttenuatorReturn ==
    /\ call.fn = "set_attenuations"
    /\ call' = NoCall
    /\ attenuators' = <<>>
    /\ UNCHANGED <<status, ad9959, pc, op, args, locals, result, trace, chip,
                   interfaceMode, pins, glitches, serializer, qspiInterface, dds>>

AttenuatorInit ==
    /\ ControllerInit
    /\ chip = ChipReset
    /\ call = NoCall
    /\ serializer = NoSerializer
    /\ qspiInterface = NoQspiInterface
    /\ dds = NoDds
    /\ attenuators = <<>>

AttenuatorNext == SetAttenuationsCall \/ AttenuatorReturn

AttenuatorSpec == AttenuatorInit /\ [][AttenuatorNext]_vars

----------------------------------------------------------------------------
(* Properties of the controller. *)

\* The event e is a successful `ev` on `tgt` with value `val`.
Did(e, ev, tgt, val) == e.ev = ev /\ e.tgt = tgt /\ e.val = val /\ e.res = "ok"

\* The event e is a successful delay of at least 5 microseconds.
Delayed(e) == e.ev = "delay_us" /\ e.val[1] >= 5 /\ e.res = "ok"

\* The event e is a transport call.
IsTransport(e) == e.ev \in {"configure_mode", "write", "read"}

Last(t) == t[Len(t)]

Finished(name) == op = name /\ pc = "idle"

\* C1: a successful Ad9959::new has issued exactly these seventeen events, in
\* this order: latch low; reset high, delay >= 5, reset low; configure_mode
\* (SingleBitTwoWire); CSR write of 0xF0 | desired_mode; latch high, delay, low;
\* configure_mode(desired_mode); delay >= 5; CSR read (equal to the byte
\* written); FR1 read; FR1 write; latch high, delay, low.  The controller exists
\* only once the last of them is done.
C1_ConstructionOrder ==
    (op = "new" /\ status = "Ready") =>
        /\ pc = "idle"
        /\ result.tag = "Ok"
        /\ Len(trace) = 17
        /\ Did(trace[1], "set", "io_update", <<0>>)
        /\ Did(trace[2], "set", "reset_pin", <<1>>)
        /\ Delayed(trace[3])
        /\ Did(trace[4], "set", "reset_pin", <<0>>)
        /\ Did(trace[5], "configure_mode", "interface", <<SingleBitTwoWire>>)
        /\ Did(trace[6], "write", "CSR", <<240 + args.desired_mode>>)
        /\ Did(trace[7], "set", "io_update", <<1>>)
        /\ Delayed(trace[8])
        /\ Did(trace[9], "set", "io_update", <<0>>)
        /\ Did(trace[10], "configure_mode", "interface", <<args.desired_mode>>)
        /\ Delayed(trace[11])
        /\ Did(trace[12], "read", "CSR", <<240 + args.desired_mode>>)
        /\ trace[13].ev = "read" /\ trace[13].tgt = "FR1" /\ trace[13].res = "ok"
        /\ trace[14].ev = "write" /\ trace[14].tgt = "FR1" /\ trace[14].res = "ok"
        /\ Len(trace[13].val) = 3 /\ Len(trace[14].val) = 3
        /\ Did(trace[15], "set", "io_update", <<1>>)
        /\ Delayed(trace[16])
        /\ Did(trace[17], "set", "io_update", <<0>>)

\* Witness of C1: a construction for four-bit serial mode has succeeded.
C1_Witness ==
    /\ op = "new" /\ status = "Ready"
    /\ args.desired_mode = FourBitSerial
    /\ Len(trace) = 17

\* The CSR read-back of Ad9959::new is the i-th event and it delivered, without
\* a transport error, a byte other than the one the CSR write carried.
ReadBackDiffers(i) ==
    /\ op = "new"
    /\ i \in 1..Len(trace)
    /\ trace[i].ev = "read" /\ trace[i].tgt = "CSR" /\ trace[i].res = "ok"
    /\ \E j \in 1..(i - 1) :
         /\ trace[j].ev = "write" /\ trace[j].tgt = "CSR"
         /\ trace[j].val = <<240 + args.desired_mode>>
         /\ trace[i].val # trace[j].val

\* C2: when the CSR read-back of Ad9959::new succeeds as a transport call but
\* delivers a byte other than 0xF0 | desired_mode, new returns Check, and the
\* read is its last event: no FR1 read, no FR1 write, no second latch pulse.
C2_ReadBackCheck ==
    \A i \in 1..Len(trace) :
        ReadBackDiffers(i) =>
            /\ i = Len(trace)
            /\ pc = "idle"
            /\ result = Err("Check")
            /\ status = "Failed"

\* Witness of C2: the read-back delivered a byte with the desired mode bits but
\* other channel enables.
C2_Witness ==
    /\ ReadBackDiffers(Len(trace))
    /\ result = Err("Check")
    /\ BitAnd(Last(trace).val[1], 7) = args.desired_mode

\* The running or last operation ended with a failed pin operation.
PinFailed ==
    /\ trace # <<>>
    /\ Last(trace).ev = "set"
    /\ Last(trace).res # "ok"

\* C3: when a pin operation of Ad9959::new fails, new returns exactly Pin and no
\* controller exists.
C3_PinError ==
    (op = "new" /\ PinFailed) =>
        /\ pc = "idle"
        /\ result = Err("Pin")
        /\ status = "Failed"

\* Witness of C3: the seventh and last pin operation of new has failed.
C3_Witness ==
    /\ op = "new" /\ PinFailed
    /\ Cardinality({i \in 1..Len(trace) : trace[i].ev = "set"}) = 7

\* The running or last operation ended with a failed transport call.
TransportFailed ==
    /\ trace # <<>>
    /\ IsTransport(Last(trace))
    /\ Last(trace).res # "ok"

\* C4: when a transport call fails, in Ad9959::new or in a setter, a getter,
\* get_reference_clock_multiplier or self_test, the operation returns exactly
\* Interface.
C4_InterfaceError ==
    TransportFailed =>
        /\ pc = "idle"
        /\ result = Err("Interface")

\* Witness of C4: a getter has failed on the read of its channel register.
C4_Witness ==
    /\ TransportFailed
    /\ op = "get_phase"
    /\ Last(trace).ev = "read" /\ Last(trace).tgt = "CPOW0"

\* C5: a failed pin operation or transport call is the last event of its
\* operation, and the operation has returned an error.
C5_FailureIsLast ==
    \A i \in 1..Len(trace) :
        trace[i].res # "ok" =>
            /\ i = Len(trace)
            /\ pc = "idle"
            /\ result.tag = "Err"

\* Witness of C5: a getter has failed on its third transport call.
C5_Witness ==
    /\ op = "get_frequency"
    /\ Len(trace) = 3
    /\ trace[3].res # "ok"

\* The positions of the successful "latch high" events of Ad9959::new.
LatchHighs ==
    {i \in 1..Len(trace) : Did(trace[i], "set", "io_update", <<1>>)}

\* The latch pulse that starts at event i dwells: the event after the high is a
\* delay of at least 5 microseconds, and the one after that drives the latch low.
Dwell(i) ==
    /\ i + 1 <= Len(trace) => Delayed(trace[i + 1])
    /\ i + 2 <= Len(trace) => /\ trace[i + 2].ev = "set"
                              /\ trace[i + 2].tgt = "io_update"
                              /\ trace[i + 2].val = <<0>>

\* After event j a delay of at least 5 microseconds precedes every register
\* access.
DelayBeforeAccess(j) ==
    \A k \in (j + 1)..Len(trace) :
        trace[k].ev \in {"read", "write"} =>
            \E m \in (j + 1)..(k - 1) : Delayed(trace[m])

\* After event j a delay of at least 5 microseconds precedes the return of the
\* controller.
DelayBeforeReturn(j) ==
    status = "Ready" => \E m \in (j + 1)..Len(trace) : Delayed(trace[m])

\* C6 as stated: both latch pulses of Ad9959::new dwell at least 5 microseconds
\* high, and after each is driven low a delay of at least 5 microseconds
\* precedes the next register access and the return of the controller.
C6_DelayOnEachSide ==
    op = "new" =>
        \A i \in LatchHighs :
            /\ Dwell(i)
            /\ i + 2 <= Len(trace) /\ trace[i + 2].res = "ok" =>
                   DelayBeforeAccess(i + 2) /\ DelayBeforeReturn(i + 2)

\* C6 as amended: both latch pulses dwell at least 5 microseconds high; after
\* the first is driven low a delay of at least 5 microseconds precedes the next
\* register access; the low of the second is the last event of new, and the
\* controller is returned with no delay after it.
C6_DelayAmended ==
    op = "new" =>
        \A i \in LatchHighs :
            /\ Dwell(i)
            /\ i + 2 <= Len(trace) /\ trace[i + 2].res = "ok" =>
                   IF \A h \in LatchHighs : i <= h
                   THEN DelayBeforeAccess(i + 2)
                   ELSE /\ i + 2 = Len(trace)
                        /\ status = "Ready"
                        /\ ~DelayBeforeReturn(i + 2)

\* Witness of C6: new has returned the controller after its two latch pulses.
C6_Witness ==
    /\ op = "new" /\ status = "Ready"
    /\ Cardinality(LatchHighs) = 2
    /\ Last(trace).tgt = "io_update"

\* Every CSR read so far delivered the byte the chip holds.
CsrEchoed == glitches.CSR = 0

\* C7: with a chip whose CSR reads deliver the byte last written, once the
\* controller is constructed the chip's CSR carries the controller's mode in its
\* low three bits, and so does every CSR write of a steady-state operation.
C7_ModeBits ==
    (status \in {"Ready", "Frozen"} /\ CsrEchoed) =>
        /\ BitAnd(chip.csr, 7) = ad9959.communication_mode
        /\ op # "new" =>
               \A i \in 1..Len(trace) :
                   (trace[i].ev = "write" /\ trace[i].tgt = "CSR") =>
                       BitAnd(trace[i].val[1], 7) = ad9959.communication_mode

\* Witness of C7: in four-bit serial mode self_test has succeeded on a CSR that
\* a setter had left selecting channel one.
C7_Witness ==
    /\ status = "Ready" /\ CsrEchoed
    /\ Finished("self_test") /\ result = Ok(<<1>>)
    /\ ad9959.communication_mode = FourBitSerial
    /\ chip.csr = ChannelONE + FourBitSerial

Setters == {"set_frequency", "set_phase", "set_amplitude"}
Getters == {"get_frequency", "get_phase", "get_amplitude"}

\* The register a setter or getter works on, and the number of its bytes.
TargetRegister(name) ==
    IF name \in {"set_frequency", "get_frequency"} THEN "CFTW0"
    ELSE IF name \in {"set_phase", "get_phase"} THEN "CPOW0"
    ELSE "ACR"

TargetWidth(name) ==
    IF name \in {"set_frequency", "get_frequency"} THEN 4
    ELSE IF name \in {"set_phase", "get_phase"} THEN 2
    ELSE 3

\* C8: a successful setter on the channel set c has issued exactly two
\* transport calls, a CSR write of mode | c and a write of its register (CFTW0
\* four bytes, CPOW0 two, ACR three), and leaves the chip's CSR channel enables
\* equal to c.
C8_SetterCalls ==
    \A name \in Setters :
        (Finished(name) /\ result.tag = "Ok") =>
            /\ Len(trace) = 2
            /\ Did(trace[1], "write", "CSR",
                   <<ad9959.communication_mode + locals.channel>>)
            /\ trace[2].ev = "write" /\ trace[2].res = "ok"
            /\ trace[2].tgt = TargetRegister(name)
            /\ Len(trace[2].val) = TargetWidth(name)
            /\ chip.csr - (chip.csr % 16) = locals.channel

\* Witness of C8: set_amplitude has succeeded on channel one alone.
C8_Witness ==
    /\ Finished("set_amplitude") /\ result.tag = "Ok"
    /\ locals.channel = ChannelONE

\* C9: a successful getter on the channel set c has issued exactly four
\* transport calls: a CSR read, a CSR write of mode | c, a read of its register,
\* and a CSR write of the byte the first read delivered.  With a chip that
\* echoes its CSR the first read delivers the CSR the getter found (nothing is
\* written before it), and that is the chip's CSR afterwards.
C9_GetterCalls ==
    \A name \in Getters :
        /\ (op = name /\ pc = "rc_337" /\ CsrEchoed) =>
               Len(trace) = 1 /\ trace[1].val = <<chip.csr>>
        /\ (Finished(name) /\ result.tag = "Ok") =>
               /\ Len(trace) = 4
               /\ \A i \in 1..4 : trace[i].res = "ok"
               /\ trace[1].ev = "read" /\ trace[1].tgt = "CSR"
               /\ Did(trace[2], "write", "CSR",
                      <<ad9959.communication_mode + locals.channel>>)
               /\ trace[3].ev = "read" /\ trace[3].tgt = TargetRegister(name)
               /\ Len(trace[3].val) = TargetWidth(name)
               /\ Did(trace[4], "write", "CSR", trace[1].val)
               /\ chip.csr = trace[1].val[1]

\* Witness of C9: get_amplitude has succeeded on a chip whose enabled channels
\* were not the ones it selected.
C9_Witness ==
    /\ Finished("get_amplitude") /\ result.tag = "Ok"
    /\ CsrEchoed
    /\ chip.csr # ad9959.communication_mode + locals.channel

\* C10: while the controller exists its fields are the arguments of new, and
\* freeze hands out the desired mode.
C10_StoredState ==
    /\ status \in {"Ready", "Frozen"} =>
           ad9959 = [reference_clock_frequency |-> args.clock_frequency,
                     system_clock_multiplier |-> args.multiplier,
                     communication_mode |-> args.desired_mode]
    /\ status = "Frozen" => result = Ok(<<args.desired_mode>>)

\* Witness of C10: a controller built with multiplier 5 for two-bit serial mode
\* has been frozen after a failed operation.
C10_Witness ==
    /\ status = "Frozen"
    /\ args.multiplier = 5
    /\ args.desired_mode = TwoBitSerial

\* The step is a setter that returns Bounds at once: no event, and the chip and
\* the controller are as they were.
RejectedAtOnce(name) ==
    /\ op' = name
    /\ pc' = "idle"
    /\ result' = Err("Bounds")
    /\ trace' = <<>>
    /\ chip' = chip
    /\ UNCHANGED <<status, ad9959, interfaceMode>>

\* The frequencies and amplitudes a setter is called with that are outside
\* the range of its argument.
FrequencyOutOfRange(f) == f < 0 \/ 2 * f > system_clock_frequency
AmplitudeOutOfRange(a) == a < 0 \/ a > AmplitudeScale

\* A step is a call of set_frequency or set_amplitude: either it returns Bounds
\* at once, or it goes on to select the channel with the code of a value that
\* is in range.
SetterChecksFirst ==
    (Callable /\ op' \in {"set_frequency", "set_amplitude"}) =>
        IF pc' = "idle"
        THEN RejectedAtOnce(op')
        ELSE /\ pc' = "mc_313"
             /\ trace' = <<>>
             /\ chip' = chip
             /\ op' = "set_frequency" =>
                    \E f \in FrequencyInputs :
                        /\ ~FrequencyOutOfRange(f)
                        /\ locals'.data = frequency_to_ftw(f, system_clock_frequency).val
             /\ op' = "set_amplitude" =>
                    \E a \in AmplitudeInputs :
                        /\ ~AmplitudeOutOfRange(a)
                        /\ locals'.data = U24ToBe(amplitude_to_acr(a).val[1])

\* C36: set_frequency with a frequency below 0 or above half the system clock
\* (stored multiplier * stored reference), and set_amplitude with an amplitude
\* outside [0, 1], return Bounds without any transport call: the chip's CSR and
\* registers stay as they are.  A value in range is not refused.
C36_BoundsBeforeChip ==
    /\ [](Callable =>
            /\ \A f \in FrequencyInputs :
                   FrequencyOutOfRange(f)
                       <=> frequency_to_ftw(f, system_clock_frequency) = Err("Bounds")
            /\ \A f \in FrequencyInputs :
                   ~FrequencyOutOfRange(f)
                       <=> frequency_to_ftw(f, system_clock_frequency).tag = "Ok"
            /\ \A a \in AmplitudeInputs :
                   AmplitudeOutOfRange(a) <=> amplitude_to_acr(a) = Err("Bounds")
            /\ \A a \in AmplitudeInputs :
                   ~AmplitudeOutOfRange(a) <=> amplitude_to_acr(a).tag = "Ok")
    /\ [][SetterChecksFirst]_vars

\* Witness of C36: with a system clock of 100 MHz, set_frequency has returned
\* Bounds on a chip whose CSR a setter had left selecting two channels.
C36_Witness ==
    /\ Finished("set_frequency")
    /\ result = Err("Bounds")
    /\ trace = <<>>
    /\ system_clock_frequency = 100000000
    /\ chip.csr - (chip.csr % 16) = BitOr(ChannelTWO, ChannelFOUR)

\* No transport call of the running or last operation has failed.
AllOk == \A i \in 1..Len(trace) : trace[i].res = "ok"

\* The positions of the CSR writes of the running or last operation.
CsrWrites == {i \in 1..Len(trace) : trace[i].ev = "write" /\ trace[i].tgt = "CSR"}

\* C11: on a transport whose CSR reads deliver the byte last written, a
\* self_test without transport error returns true after exactly six transport
\* calls: CSR read (the CSR it found), write of saved | 0xF0, read, write of the
\* read-back with the high nibble cleared, read, write of the saved byte; the
\* three writes are its only writes and the chip's CSR ends as it was found.
C11_SelfTestEcho ==
    /\ (op = "self_test" /\ pc = "st_264" /\ CsrEchoed) =>
           Len(trace) = 1 /\ trace[1].val = <<chip.csr>>
    /\ (Finished("self_test") /\ CsrEchoed /\ AllOk) =>
           /\ result = Ok(<<1>>)
           /\ Len(trace) = 6
           /\ \A i \in {1, 3, 5} : trace[i].ev = "read" /\ trace[i].tgt = "CSR"
           /\ Did(trace[2], "write", "CSR", <<BitOr(trace[1].val[1], 240)>>)
           /\ Did(trace[4], "write", "CSR", <<trace[3].val[1] % 16>>)
           /\ Did(trace[6], "write", "CSR", trace[1].val)
           /\ CsrWrites = {2, 4, 6}
           /\ chip.csr = trace[1].val[1]

\* Witness of C11: self_test has succeeded on a CSR that selected channels two
\* and four in two-bit serial mode.
C11_Witness ==
    /\ Finished("self_test") /\ CsrEchoed /\ AllOk
    /\ result = Ok(<<1>>)
    /\ chip.csr = ChannelTWO + ChannelFOUR + TwoBitSerial

\* C12 as stated: whenever self_test returns true or false, the last CSR byte
\* it wrote is the byte its first read delivered (the CSR before the call), and
\* the chip's channel enables are those of that byte.
C12_RestoredOnExit ==
    (Finished("self_test") /\ result.tag = "Ok") =>
        /\ CsrWrites # {}
        /\ \A i \in CsrWrites :
               (\A j \in CsrWrites : j <= i) => trace[i].val = trace[1].val
        /\ chip.csr \div 16 = trace[1].val[1] \div 16

\* A read-back of self_test disagreed with the enables just written: the third
\* event after enabling all channels, or the fifth after clearing them.
SoftFailure ==
    /\ AllOk
    /\ \/ Len(trace) = 3 /\ trace[3].val[1] \div 16 # 15
       \/ Len(trace) = 5 /\ trace[5].val[1] \div 16 # 0

\* C13: self_test returns false exactly when no transport call failed and a
\* read-back disagreed, Interface exactly when a transport call failed, and true
\* otherwise; it returns nothing else.
C13_SoftAndHard ==
    Finished("self_test") =>
        /\ result = Ok(<<0>>) <=> SoftFailure
        /\ result = Err("Interface") <=> TransportFailed
        /\ result = Ok(<<1>>) <=> (~SoftFailure /\ ~TransportFailed)
        /\ result \in {Ok(<<0>>), Ok(<<1>>), Err("Interface")}

\* Witness of C13: self_test has returned false on the read-back after clearing
\* the enables.
C13_Witness ==
    /\ Finished("self_test")
    /\ result = Ok(<<0>>)
    /\ Len(trace) = 5

\* The positions of the accesses `ev` to FR1 in the running or last operation.
Fr1Accesses(ev) == {i \in 1..Len(trace) : trace[i].ev = ev /\ trace[i].tgt = "FR1"}

ClockingRejected ==
    /\ op = "new"
    /\ validate_clocking(args.clock_frequency, args.multiplier).tag = "Err"

\* The trace is that of a construction which went through the CSR read-back and
\* no further: reset, narrow mode, CSR write, first latch pulse, mode switch,
\* delay and a read-back of the byte written.
ThroughReadBack ==
    /\ Len(trace) = 12
    /\ Did(trace[1], "set", "io_update", <<0>>)
    /\ Did(trace[2], "set", "reset_pin", <<1>>)
    /\ Delayed(trace[3])
    /\ Did(trace[4], "set", "reset_pin", <<0>>)
    /\ Did(trace[5], "configure_mode", "interface", <<SingleBitTwoWire>>)
    /\ Did(trace[6], "write", "CSR", <<240 + args.desired_mode>>)
    /\ Did(trace[7], "set", "io_update", <<1>>)
    /\ Delayed(trace[8])
    /\ Did(trace[9], "set", "io_update", <<0>>)
    /\ Did(trace[10], "configure_mode", "interface", <<args.desired_mode>>)
    /\ Delayed(trace[11])
    /\ Did(trace[12], "read", "CSR", <<240 + args.desired_mode>>)

\* C37: when validate_clocking rejects the clocking arguments, Ad9959::new
\* returns its Bounds or Frequency only after the reset, the CSR write, the
\* first latch pulse, the mode switch and a good CSR read-back, with no FR1
\* access and no second latch pulse; a read-back that fails or differs ends new
\* with Interface or Check although the arguments are invalid.
C37_ValidatedLate ==
    ClockingRejected =>
        /\ status # "Ready"
        /\ Fr1Accesses("read") = {} /\ Fr1Accesses("write") = {}
        /\ Cardinality(LatchHighs) <= 1
        /\ Len(trace) <= 12
        /\ (pc = "idle" /\ result \in {Err("Bounds"), Err("Frequency")}) =>
               ThroughReadBack
        /\ (pc = "idle" /\ ThroughReadBack) =>
               result = validate_clocking(args.clock_frequency, args.multiplier)
        /\ (pc = "idle" /\ Len(trace) = 12 /\ Last(trace).res # "ok") =>
               result = Err("Interface")
        /\ ReadBackDiffers(12) => pc = "idle" /\ result = Err("Check")

\* Witness of C37: a reference of 25 MHz with multiplier 7 (175 MHz, in no
\* band) was rejected with Frequency after the twelve events.
C37_Witness ==
    /\ ClockingRejected /\ pc = "idle"
    /\ args.clock_frequency = 25000000 /\ args.multiplier = 7
    /\ result = Err("Frequency")
    /\ ThroughReadBack

\* A CSR read-back that differs took precedence over a multiplier of 2.
C37_Precedence ==
    /\ ClockingRejected /\ args.multiplier = 2
    /\ ReadBackDiffers(12)
    /\ result = Err("Check")

\* The mode a QspiInterface serving the driver is in when event i of the trace
\* is issued: that of the last configure_mode before i, SingleBitTwoWire (the
\* mode QspiInterface::new leaves) if there is none.
AdapterModeAt(i) ==
    LET set == {j \in 1..(i - 1) : trace[j].ev = "configure_mode"}
    IN  IF set = {} THEN SingleBitTwoWire
        ELSE trace[CHOOSE j \in set : \A k \in set : k <= j].val[1]

\* A QspiInterface in mode m, streaming or not, can answer the transport call
\* e as the trace records it, for some answer of the peripheral.
AdapterAnswers(e, m, streaming) ==
    LET q == [NoQspiInterface EXCEPT !.made = TRUE, !.mode = m, !.streaming = streaming]
    IN  CASE e.ev = "configure_mode" -> e.res = "ok"
          [] e.ev = "write" ->
                \E r \in QspiOutcomes :
                    (QspiInterfaceWrite(q, RegisterAddress[e.tgt], e.val, r).out.tag = "Ok")
                        <=> (e.res = "ok")
          [] e.ev = "read" ->
                \E r \in QspiOutcomes :
                    (QspiInterfaceRead(q, RegisterAddress[e.tgt], e.val, r).out.tag = "Ok")
                        <=> (e.res = "ok")
          [] OTHER -> TRUE

\* The transport of the running or last operation behaved as a QspiInterface
\* does.
OnAdapter(streaming) ==
    \A i \in 1..Len(trace) : AdapterAnswers(trace[i], AdapterModeAt(i), streaming)

\* The positions of the CSR reads of the running or last operation.
CsrReads == {i \in 1..Len(trace) : trace[i].ev = "read" /\ trace[i].tgt = "CSR"}

\* C33: with a QspiInterface as transport, Ad9959::new returns the controller
\* only for desired_mode FourBitSerial.  For any other mode the CSR read-back,
\* once reached, is refused by the adapter: it is the last event, new returns
\* Interface, and the reset and the CSR write have been done.  The CSR write is
\* made in SingleBitTwoWire with one payload byte, which the adapter passes to
\* the peripheral whatever the byte; the only CSR read comes after the
\* configure_mode(desired_mode).
C33_ReferenceAdapter ==
    \A streaming \in BOOLEAN :
        (op = "new" /\ OnAdapter(streaming)) =>
            /\ status = "Ready" => args.desired_mode = FourBitSerial
            /\ (args.desired_mode # FourBitSerial /\ Len(trace) >= 12) =>
                   /\ Len(trace) = 12 /\ pc = "idle"
                   /\ Last(trace).ev = "read" /\ Last(trace).tgt = "CSR"
                   /\ Last(trace).res # "ok"
                   /\ result = Err("Interface")
                   /\ Did(trace[2], "set", "reset_pin", <<1>>)
                   /\ Did(trace[6], "write", "CSR", <<240 + args.desired_mode>>)
                   /\ chip.csr = 240 + args.desired_mode
            /\ \A i \in CsrWrites :
                   /\ AdapterModeAt(i) = SingleBitTwoWire
                   /\ Len(trace[i].val) = 1
                   /\ \A r \in QspiOutcomes, b \in 0..255 :
                          QspiInterfaceWrite(
                              [NoQspiInterface EXCEPT !.made = TRUE, !.streaming = streaming],
                              RegisterAddress["CSR"], <<b>>, r).out = QspiResult(r, <<>>)
            /\ Cardinality(CsrReads) <= 1
            /\ \A i \in CsrReads :
                   /\ AdapterModeAt(i) = args.desired_mode
                   /\ Did(trace[i - 2], "configure_mode", "interface", <<args.desired_mode>>)
                   /\ trace[i].res = "ok" => args.desired_mode = FourBitSerial

\* Witness of C33: new has returned the controller over an adapter that is
\* not streaming.
C33_Witness ==
    /\ op = "new" /\ status = "Ready"
    /\ OnAdapter(FALSE)
    /\ args.desired_mode = FourBitSerial
    /\ CsrReads = {12}

\* The adapter has refused the read-back in TwoBitSerial.
C33_Refused ==
    /\ op = "new" /\ OnAdapter(FALSE)
    /\ args.desired_mode = TwoBitSerial
    /\ Len(trace) = 12
    /\ result = Err("Interface")

----------------------------------------------------------------------------
(* Properties of the free functions, under CodecSpec. *)

\* The call of fn has returned.
Returned(fn) == call.fn = fn /\ call.out # Pending

\* The arguments (r, m) are outside the documented ranges of validate_clocking.
OutOfBounds(r, m) ==
    \/ ~(m = 1 \/ m \in 4..20)
    \/ (m # 1 /\ r < 10000000)
    \/ r < 1000000

\* The system clock f lies in a band the chip supports with multiplier m.
InBand(f, m) ==
    \/ f >= 255000000 /\ f <= 500000000
    \/ f >= 100000000 /\ f <= 160000000
    \/ m = 1 /\ f >= 0 /\ f < 100000000

\* C14: validate_clocking returns Bounds if and only if the multiplier is
\* neither 1 nor in 4..20, or it is not 1 and the reference is below 10 MHz, or
\* the reference is below 1 MHz; a multiplier of 0, 2, 3 or 21 gives Bounds, not
\* Frequency, whatever the product.
C14_ClockingBounds ==
    Returned("validate_clocking") =>
        /\ call.out = Err("Bounds") <=> OutOfBounds(call.in[1], call.in[2])
        /\ call.in[2] \in {0, 2, 3, 21} => call.out = Err("Bounds")

\* Witness of C14: multiplier 2 on 64 MHz, a product inside the low PLL band,
\* has been rejected with Bounds.
C14_Witness ==
    /\ Returned("validate_clocking")
    /\ call.in = <<64000000, 2>>
    /\ call.out = Err("Bounds")

\* C15 as stated: arguments inside the bounds are accepted with the product
\* multiplier * reference if and only if that product lies in a supported band,
\* and rejected with Frequency otherwise.
C15_ExactProduct ==
    (Returned("validate_clocking") /\ ~OutOfBounds(call.in[1], call.in[2])) =>
        LET product == call.in[2] * call.in[1]
        IN  call.out = IF InBand(product, call.in[2]) THEN Ok(<<product>>)
                       ELSE Err("Frequency")

\* C15 as amended: the product is the single-precision one, multiplier *
\* reference rounded to the nearest f32 (within 16 Hz of the exact product when
\* it is accepted); it is returned if and only if it lies in a supported
\* band, Frequency otherwise.  (25 MHz, 4) gives 100 MHz, (25 MHz, 7) Frequency.
C15_RoundedProduct ==
    (Returned("validate_clocking") /\ ~OutOfBounds(call.in[1], call.in[2])) =>
        LET exact == call.in[2] * call.in[1]
            frequency == F32Round(exact)
        IN  /\ call.out = IF InBand(frequency, call.in[2]) THEN Ok(<<frequency>>)
                           ELSE Err("Frequency")
            /\ call.out.tag = "Ok" => frequency - exact \in -16..16
            /\ call.in = <<25000000, 4>> => call.out = Ok(<<100000000>>)
            /\ call.in = <<25000000, 7>> => call.out = Err("Frequency")
            /\ (call.in[2] = 1 /\ call.in[1] > 160000000 /\ call.in[1] < 255000000)
                   => call.out = Err("Frequency")
            /\ (call.in[2] = 1 /\ call.in[1] > 500000000) => call.out = Err("Frequency")

\* Witness of C15: 13 * 19615384 Hz = 254999992 Hz, below the high band, has
\* been accepted with 255 MHz.
C15_Witness ==
    /\ Returned("validate_clocking")
    /\ call.in = <<19615384, 13>>
    /\ call.out = Ok(<<255000000>>)

\* The first n bits of the binary fraction r / fs, 0 <= r < fs, after the bits
\* m: <<remainder, bits>>.
RECURSIVE FractionBits(_, _, _, _)
FractionBits(r, fs, n, m) ==
    IF n = 0 THEN <<r, m>>
    ELSE FractionBits((2 * r) % fs, fs, n - 1, 2 * m + (2 * r) \div fs)

\* floor(f * 2^32 / fs) for 0 <= f < fs, as four big-endian bytes.
FloorFtw(f, fs) ==
    LET a == FractionBits(f, fs, 8, 0)
        b == FractionBits(a[1], fs, 8, 0)
        c == FractionBits(b[1], fs, 8, 0)
        d == FractionBits(c[1], fs, 8, 0)
    IN  <<a[2], b[2], c[2], d[2]>>

\* The low three bytes of a tuning word as a number.
Low24(w) == w[2] * 65536 + w[3] * 256 + w[4]

\* The tuning words v and w differ by at most tol.
Near(v, w, tol) ==
    IF v[1] = w[1] THEN Low24(v) - Low24(w) \in -tol..tol
    ELSE IF v[1] = w[1] + 1 THEN Pow2(24) + Low24(v) - Low24(w) <= tol
    ELSE IF w[1] = v[1] + 1 THEN Pow2(24) + Low24(w) - Low24(v) <= tol
    ELSE FALSE

\* The number of bits of the byte b.
RECURSIVE BitLength(_)
BitLength(b) == IF b = 0 THEN 0 ELSE 1 + BitLength(b \div 2)

\* The target is outside [0, system / 2].
BeyondNyquist(target, system) == target < 0 \/ 2 * target > system

\* C16 as stated: frequency_to_ftw returns Bounds if and only if the target is
\* below 0 or above system / 2, and otherwise floor(target * 2^32 / system).
C16_ExactFloor ==
    Returned("frequency_to_ftw") =>
        call.out = IF BeyondNyquist(call.in[1], call.in[2]) THEN Err("Bounds")
                   ELSE Ok(FloorFtw(call.in[1], call.in[2]))

\* C16 as amended: frequency_to_ftw returns Bounds if and only if the target is
\* below 0 or above system / 2, the boundary being accepted with 2^31.
\* Otherwise the quotient target / system is rounded to single precision before
\* it is scaled and truncated: the tuning word has at most 24 significant bits,
\* differs from floor(target * 2^32 / system) by at most 128, in either
\* direction, and never exceeds 2^31.
C16_RoundedQuotient ==
    Returned("frequency_to_ftw") =>
        LET target == call.in[1]
            system == call.in[2]
            ftw == call.out.val
        IN  /\ call.out = Err("Bounds") <=> BeyondNyquist(target, system)
            /\ ~BeyondNyquist(target, system) =>
                   /\ call.out.tag = "Ok"
                   /\ Len(ftw) = 4
                   /\ \A i \in 1..4 : ftw[i] \in 0..255
                   /\ ftw[1] < 128 \/ ftw = <<128, 0, 0, 0>>
                   /\ 2 * target = system => ftw = <<128, 0, 0, 0>>
                   /\ Near(ftw, FloorFtw(target, system), 128)
                   /\ ftw[4] % Pow2(BitLength(ftw[1])) = 0

\* Witness of C16: for 10 MHz on a 100 MHz system clock the tuning word is
\* above floor(target * 2^32 / system).
C16_Witness ==
    /\ Returned("frequency_to_ftw")
    /\ call.in = <<10000000, 100000000>>
    /\ call.out.tag = "Ok"
    /\ call.out.val[1] = FloorFtw(10000000, 100000000)[1]
    /\ Low24(call.out.val) > Low24(FloorFtw(10000000, 100000000))

\* C17 as stated: for every phase of 0 turns or more phase_to_pow returns
\* floor(turns * 2^14) mod 2^14, so that whole turns drop out.
C17_Wraps ==
    (Returned("phase_to_pow") /\ call.in[1] >= 0) =>
        call.out = Ok(<<(call.in[1] \div (PhaseScale \div Pow2(14))) % Pow2(14)>>)

\* C18: amplitude_to_acr returns Bounds if and only if the amplitude is outside
\* [0, 1].  With code = floor(amplitude * 1024): below 1024 the word is
\* 0x1000 | code, at amplitude 1.0 it is 0; only bit 12 and bits 0..9 can be
\* set.  The three bytes transmitted decode, by the rule of get_amplitude, to
\* code / 1024, to 1.0 for amplitude 1.0, which is what set_amplitude returns.
C18_AmplitudeCode ==
    Returned("amplitude_to_acr") =>
        LET amplitude == call.in[1]
            code == (amplitude * Pow2(10)) \div AmplitudeScale
        IN  /\ call.out = Err("Bounds") <=> (amplitude < 0 \/ amplitude > AmplitudeScale)
            /\ (amplitude >= 0 /\ amplitude <= AmplitudeScale) =>
                   LET acr == call.out.val[1]
                       back == IF amplitude = AmplitudeScale THEN Pow2(10) ELSE code
                   IN  /\ call.out.tag = "Ok"
                       /\ code < 1024 => acr = 4096 + code
                       /\ amplitude = AmplitudeScale => acr = 0
                       /\ BitAnd(acr, 4096 + 1023) = acr
                       /\ Decode("get_amplitude", U24ToBe(acr)) = <<back>>
                       /\ AcrAmplitude(acr) = back

\* Witness of C18: the largest amplitude below full scale has been encoded.
C18_Witness ==
    /\ Returned("amplitude_to_acr")
    /\ call.in = <<AmplitudeScale - 1>>
    /\ call.out = Ok(<<4096 + 1023>>)

----------------------------------------------------------------------------
(* Properties of ProfileSerializer, under SerializerSpec. *)

\* The number of payload bytes of the register at address a.
RegisterWidth(a) ==
    IF a = RegisterAddress.CSR THEN 1
    ELSE IF a = RegisterAddress.FR1 THEN 3
    ELSE IF a = RegisterAddress.CFTW0 THEN 4
    ELSE IF a = RegisterAddress.CPOW0 THEN 2
    ELSE IF a = RegisterAddress.ACR THEN 3
    ELSE 2

\* The bytes i+1..n of data are a concatenation of records, each an address
\* byte followed by as many bytes as its register is wide.
RECURSIVE Records(_, _, _)
Records(data, i, n) ==
    IF i = n THEN TRUE
    ELSE /\ data[i + 1] \in {RegisterAddress[r] : r \in DOMAIN RegisterAddress}
         /\ i + 1 + RegisterWidth(data[i + 1]) <= n
         /\ Records(data, i + 1 + RegisterWidth(data[i + 1]), n)

\* The bytes update_channels is to append in mode `mode` for the arguments in.
ChannelRecords(mode, in) ==
    <<0, mode + in[1]>>
    \o (IF in[2] # <<>> THEN <<4>> \o in[2][1] ELSE <<>>)
    \o (IF in[3] # <<>> THEN <<5, in[3][1] \div 256, in[3][1] % 256>> ELSE <<>>)
    \o (IF in[4] # <<>> THEN <<6, in[4][1][2], in[4][1][3], in[4][1][4]>> ELSE <<>>)

\* A step is a call of update_channels that did not run out of the buffer: the
\* records are appended at the cursor, the cursor advances by their length, and
\* nothing before the old cursor changes.
UpdateAppends ==
    (/\ call'.fn = "update_channels"
     /\ Len(serializer'.calls) = Len(serializer.calls) + 1
     /\ ~serializer'.panicked) =>
        LET in == call'.in
            given(o) == IF o # <<>> THEN 1 ELSE 0
            records == ChannelRecords(serializer.mode, in)
        IN  /\ serializer'.index = serializer.index + Len(records)
            /\ Len(records) = 2 + 5 * given(in[2]) + 3 * given(in[3]) + 4 * given(in[4])
            /\ SubSeq(serializer'.data, serializer.index + 1, serializer'.index) = records
            /\ SubSeq(serializer'.data, 1, serializer.index)
                   = SubSeq(serializer.data, 1, serializer.index)
            /\ serializer'.mode = serializer.mode

\* C20: update_channels appends at the cursor the CSR record [0x00, mode |
\* channels], then [0x04, ftw] if ftw is given, [0x05, pow] if pow is given and
\* [0x06, low three bytes of acr] if acr is given, in this order, big-endian,
\* with nothing in between; the cursor advances by 2 + 5[ftw] + 3[pow] + 4[acr]
\* and the bytes before the old cursor stay.  In every state the buffer up to
\* the cursor is a concatenation of records of 1 + the width of their register.
C20_UpdateChannels ==
    /\ [](serializer.data # <<>> => Records(serializer.data, 0, serializer.index))
    /\ [][UpdateAppends]_vars

\* Witness of C20: a second update_channels with all three words given has
\* brought the cursor to 28.
C20_Witness ==
    /\ call.fn = "update_channels"
    /\ \A i \in 2..4 : call.in[i] # <<>>
    /\ serializer.index = 28
    /\ ~serializer.panicked

\* The last method called on the serializer, with the cursor it found.
LastCall == serializer.calls[Len(serializer.calls)]

\* The padding a stream of c bytes needs in mode `mode`: the LSRR record if c
\* is odd, then the CSR record if the cursor then has bit 1 set.
PadBytes(c, mode) ==
    LET lsrr == IF c % 2 = 1 THEN <<7, 0, 0>> ELSE <<>>
    IN  lsrr \o (IF ((c + Len(lsrr)) \div 2) % 2 = 1 THEN <<0, mode>> ELSE <<>>)

\* A step is a call of finalize: unless the padding runs out of the buffer, the
\* padding is appended at the cursor, the cursor becomes a multiple of 4, and
\* the bytes up to it, the old ones unchanged, are returned.
FinalizePads ==
    (/\ call'.fn = "finalize"
     /\ Len(serializer'.calls) = Len(serializer.calls) + 1) =>
        LET c == serializer.index
            n == serializer'.index
            padding == PadBytes(c, serializer.mode)
        IN  /\ Len(padding) = <<0, 3, 2, 5>>[(c % 4) + 1]
            /\ serializer'.panicked <=> c + Len(padding) > BufferSize
            /\ ~serializer'.panicked =>
                   /\ n = c + Len(padding)
                   /\ n % 4 = 0
                   /\ SubSeq(serializer'.data, c + 1, n) = padding
                   /\ SubSeq(serializer'.data, 1, c) = SubSeq(serializer.data, 1, c)
                   /\ call'.out = Ok(SubSeq(serializer'.data, 1, n))
                   /\ Len(call'.out.val) = 4 * (n \div 4)

\* C21: finalize, called at cursor c, appends the LSRR record [0x07, 0, 0] iff
\* c is odd and then the CSR record [0x00, mode] iff the cursor then has bit 1
\* set: 0, 3, 2 or 5 bytes for c mod 4 = 0, 1, 2, 3.  When it returns, the
\* cursor is a multiple of 4 and the slice returned has cursor/4 words, which
\* are the records that were there followed by the padding.  It returns
\* unless the padding does not fit the buffer.
C21_FinalizePads == [][FinalizePads]_vars

\* Witness of C21: finalize found a stream of more than one record with a
\* cursor that is 3 modulo 4, and returned.
C21_Witness ==
    /\ call.fn = "finalize"
    /\ call.out.tag = "Ok"
    /\ LastCall.at % 4 = 3
    /\ LastCall.at > 7
    /\ serializer.index = LastCall.at + 5

\* The batch new(mode); update_channels(ONE, Some(0x12345678), None, None);
\* finalize() has been run.
TuningWordBatch ==
    /\ Len(serializer.calls) = 2
    /\ serializer.calls[1].fn = "update_channels"
    /\ serializer.calls[1].in = <<ChannelONE, <<<<18, 52, 86, 120>>>>, <<>>, <<>>>>
    /\ serializer.calls[2].fn = "finalize"

\* C22 as stated: in that batch the records take 6 bytes, padding brings the
\* stream to 8 bytes, and finalize returns two words.
C22_TwoWords ==
    TuningWordBatch =>
        /\ serializer.calls[2].at = 6
        /\ serializer.index = 8
        /\ call.out.tag = "Ok"
        /\ Len(call.out.val) = 2 * 4

\* C22, amended: in that batch the records take 7 bytes, [0x00, mode | 0x10]
\* and [0x04, 0x12, 0x34, 0x56, 0x78]; padding adds the LSRR record and the CSR
\* record and brings the stream to 12 bytes, and finalize returns three words.
C22_ThreeWords ==
    TuningWordBatch =>
        /\ serializer.calls[2].at = 7
        /\ serializer.index = 12
        /\ call.out = Ok(<<0, serializer.mode + 16, 4, 18, 52, 86, 120,
                           7, 0, 0, 0, serializer.mode>>)
        /\ Len(call.out.val) = 3 * 4

\* Witness of C22: the batch has been run in four-bit mode.
C22_Witness ==
    /\ TuningWordBatch
    /\ serializer.mode = FourBitSerial
    /\ call.fn = "finalize"
    /\ call.out.tag = "Ok"

\* C23 as stated: for every reference and every multiplier in 0..31,
\* set_system_clock returns the product reference * multiplier and appends
\* [0x01, (multiplier << 2) | (0x80 iff the product exceeds 200 MHz), 0, 0].
C23_ExactClockRecord ==
    Returned("set_system_clock") =>
        LET product == call.in[1] * call.in[2]
        IN  /\ call.out = Ok(<<product>>)
            /\ SubSeq(serializer.data, 1, serializer.index)
                   = <<1, call.in[2] * 4 + (IF product > 200000000 THEN 128 ELSE 0), 0, 0>>

\* C23, amended: set_system_clock validates nothing.  For every reference and
\* every multiplier in 0..31, also those validate_clocking rejects, it returns
\* Ok(f), f the product rounded to single precision (within 2^-24 of it), and
\* appends [0x01, (multiplier << 2) | (0x80 iff f > 200 MHz), 0, 0], which are
\* the FR1 address and the bytes configure_system_clock writes when FR1 reads
\* back as zero.
C23_RoundedClockRecord ==
    Returned("set_system_clock") =>
        LET product == call.in[1] * call.in[2]
            f == F32Round(product)
        IN  /\ call.out = Ok(<<f>>)
            /\ f - product \in -(product \div Pow2(24))..(product \div Pow2(24))
            /\ ~serializer.panicked
            /\ serializer.index = 4
            /\ SubSeq(serializer.data, 1, serializer.index)
                   = <<1, call.in[2] * 4 + (IF f > 200000000 THEN 128 ELSE 0), 0, 0>>
            /\ SubSeq(serializer.data, 1, serializer.index)
                   = <<RegisterAddress.FR1>> \o ClockFr1(<<0, 0, 0>>, call.in[2], f)

\* Witness of C23: 25 MHz with multiplier 7, which validate_clocking rejects,
\* has been written as a record.
C23_Witness ==
    /\ Returned("set_system_clock")
    /\ call.in = <<25000000, 7>>
    /\ validate_clocking(25000000, 7).tag = "Err"
    /\ call.out = Ok(<<175000000>>)
    /\ SubSeq(serializer.data, 1, serializer.index) = <<1, 28, 0, 0>>

\* How many bytes the last method called was to append.
Needed ==
    IF LastCall.fn = "update_channels"
    THEN Len(ChannelRecords(serializer.mode, LastCall.in))
    ELSE IF LastCall.fn = "set_system_clock" THEN 1 + RegisterWidth(RegisterAddress.FR1)
    ELSE Len(PadBytes(LastCall.at, serializer.mode))

\* The records of the last method called extend past the buffer.
Overflows == serializer.calls # <<>> /\ LastCall.at + Needed > BufferSize

C31_FinalizeFits ==
    (/\ serializer.calls # <<>>
     /\ LastCall.fn = "finalize"
     /\ \A i \in 1..(Len(serializer.calls) - 1) : serializer.calls[i].fn # "finalize"
     /\ LastCall.at <= BufferSize) =>
        /\ ~serializer.panicked
        /\ call.out.tag = "Ok"
        /\ serializer.index <= BufferSize
        /\ serializer.index % 4 = 0

\* A step is a method called right after a finalize that returned: the words
\* that finalize returned stay at the start of the buffer, the cursor does not
\* go back, a second finalize changes nothing and returns the same words, and
\* new records start where the padding ended.
AfterFinalize ==
    (/\ call.fn = "finalize"
     /\ call.out.tag = "Ok"
     /\ Len(serializer'.calls) = Len(serializer.calls) + 1) =>
        /\ serializer.index = Len(call.out.val)
        /\ SubSeq(serializer'.data, 1, serializer.index) = call.out.val
        /\ serializer'.index >= serializer.index
        /\ call'.fn = "finalize" =>
               /\ serializer'.index = serializer.index
               /\ serializer'.data = serializer.data
               /\ call'.out = call.out
        /\ (call'.fn = "update_channels" /\ ~serializer'.panicked) =>
               SubSeq(serializer'.data, serializer.index + 1, serializer'.index)
                   = ChannelRecords(serializer.mode, call'.in)
        /\ (call'.fn = "set_system_clock" /\ ~serializer'.panicked) =>
               /\ serializer'.index = serializer.index + 4
               /\ serializer'.data[serializer.index + 1] = RegisterAddress.FR1

\* finalize has returned: what it returned holds, for every earlier finalize
\* of the batch, the bytes that were there, then its padding, then the records
\* of the call that followed it.
EarlierBatchesKept ==
    (serializer.calls # <<>> /\ call.fn = "finalize" /\ call.out.tag = "Ok") =>
        \A j \in 1..(Len(serializer.calls) - 1) :
            serializer.calls[j].fn = "finalize" =>
                LET at == serializer.calls[j].at
                    padding == PadBytes(at, serializer.mode)
                    next == serializer.calls[j + 1]
                IN  /\ Records(call.out.val, 0, at)
                    /\ SubSeq(call.out.val, at + 1, at + Len(padding)) = padding
                    /\ next.at = at + Len(padding)
                    /\ next.fn = "update_channels" =>
                           LET records == ChannelRecords(serializer.mode, next.in)
                           IN  SubSeq(call.out.val, next.at + 1, next.at + Len(records))
                                   = records

\* C38: finalize neither clears the buffer nor moves the cursor back.  A second
\* finalize right after it appends nothing and returns the same words; records
\* added after a finalize go after its padding, and a later finalize returns
\* the earlier batch, its padding and the new records.
C38_FinalizeKeeps == []EarlierBatchesKept /\ [][AfterFinalize]_vars

\* Witness of C38: update_channels, finalize, update_channels, finalize have
\* been called, and the second finalize returned both batches.
C38_Witness ==
    /\ Len(serializer.calls) = 4
    /\ serializer.calls[1].fn = "update_channels"
    /\ serializer.calls[2].fn = "finalize"
    /\ serializer.calls[2].at = 7
    /\ serializer.calls[3].fn = "update_channels"
    /\ serializer.calls[3].at = 12
    /\ serializer.calls[4].fn = "finalize"
    /\ call.out.tag = "Ok"
    /\ Len(call.out.val) > 12

----------------------------------------------------------------------------
(* Properties of QspiInterface, under QspiSpec. *)

\* write, or read, has been called and has returned.
Wrote == call.fn = "write" /\ qspiInterface.made
HasRead == call.fn = "read" /\ qspiInterface.made

\* The address of the call has its top bit clear.
ValidAddress == BitAnd(call.in[1], 128) = 0

\* Nothing was asked of the peripheral.
NoTransaction == qspiInterface.qspi = <<>>

\* C25: a write or a read whose address has bit 7 set returns InvalidAddress
\* and asks nothing of the peripheral, whatever the mode, the payload length
\* and the streaming flag are: the address is checked before the length
\* (Bounds) and before mode and streaming (InvalidState).
C25_InvalidAddressFirst ==
    ((Wrote \/ HasRead) /\ ~ValidAddress) =>
        /\ call.out = Err("InvalidAddress")
        /\ NoTransaction

\* Witness of C25: a write of three bytes to address 0xD5 in SingleBitTwoWire
\* mode with streaming on was rejected for its address.
C25_Witness ==
    /\ Wrote
    /\ call.in[1] = 213
    /\ Len(call.in[2]) = 3
    /\ qspiInterface.mode = SingleBitTwoWire
    /\ qspiInterface.streaming
    /\ call.out = Err("InvalidAddress")

\* A write in SingleBitTwoWire mode of a valid address and at most two bytes.
NarrowWrite ==
    /\ Wrote
    /\ qspiInterface.mode = SingleBitTwoWire
    /\ ValidAddress
    /\ Len(call.in[2]) <= 2

\* The bytes put on the bus by the transaction t: its address argument, then
\* its payload.
Transmitted(t) == <<t.addr>> \o t.data

\* The k-th byte read off the transmitted bytes, two bits per byte, bit 4 and
\* then bit 0, most significant bit first.
DecodedByte(stream, k) ==
    LET bitAt(i) ==
            LET byte == stream[(k - 1) * 4 + ((i + 1) \div 2)]
            IN  IF i % 2 = 1 THEN (byte \div 16) % 2 ELSE byte % 2
    IN  128 * bitAt(1) + 64 * bitAt(2) + 32 * bitAt(3) + 16 * bitAt(4)
        + 8 * bitAt(5) + 4 * bitAt(6) + 2 * bitAt(7) + bitAt(8)
Decoded(stream) == [k \in 1..(Len(stream) \div 4) |-> DecodedByte(stream, k)]

\* The payloads of at most two bytes.
EncodablePayloads == UNION {[1..n -> PayloadBytes] : n \in 0..2}

\* C26: a SingleBitTwoWire write of an address and n <= 2 bytes makes one write
\* of the peripheral, with 4 * (1 + n) bytes in all, the first as the address
\* argument and the other 4 * (1 + n) - 1 as the payload.  Bit 4 and then bit 0
\* of each of these bytes, in order, are the bits of the address and of each
\* data byte, most significant first; no other address and data give the same
\* bytes.
C26_Encoding ==
    NarrowWrite =>
        /\ Len(qspiInterface.qspi) = 1
        /\ LET t == qspiInterface.qspi[1]
                n == Len(call.in[2])
           IN  /\ t.op = "write"
               /\ Len(Transmitted(t)) = 4 * (1 + n)
               /\ Len(t.data) = 4 * (1 + n) - 1
               /\ Decoded(Transmitted(t)) = <<call.in[1]>> \o call.in[2]
               /\ \A a \in AddressInputs, d \in EncodablePayloads :
                      (/\ BitAnd(a, 128) = 0
                       /\ EncodedWrite(a, d, t.res).qspi = qspiInterface.qspi) =>
                          <<a, d>> = call.in

\* Witness of C26: 0x55 and the bytes 0xA5, 0x5A have been written as 0x01 and
\* eleven bytes of 0x01 and 0x10.
C26_Witness ==
    /\ NarrowWrite
    /\ call.in = <<85, <<165, 90>>>>
    /\ qspiInterface.qspi[1].addr = 1
    /\ qspiInterface.qspi[1].data = <<1, 1, 1, 16, 16, 1, 1, 1, 1, 16, 16>>

\* C27: every byte a SingleBitTwoWire write transmits has no bit set but bits 0
\* and 4: the lines IO1, IO2 and IO3 are low in every symbol.
C27_UpperLinesLow ==
    (Wrote /\ qspiInterface.mode = SingleBitTwoWire) =>
        \A i \in 1..Len(qspiInterface.qspi) :
            LET stream == Transmitted(qspiInterface.qspi[i])
            IN  \A j \in 1..Len(stream) : BitAnd(stream[j], 238) = 0

\* Witness of C27: 0x7F and 0xFF have been written, every byte but the first
\* with both lines high.
C27_Witness ==
    /\ NarrowWrite
    /\ call.in = <<127, <<255>>>>
    /\ Transmitted(qspiInterface.qspi[1]) = <<1, 17, 17, 17, 17, 17, 17, 17>>

\* C28: in SingleBitTwoWire mode a write of a valid address with more than two
\* bytes returns Bounds and asks nothing of the peripheral; with at most two
\* bytes every index used lies in the twelve bytes of encoded_data.
C28_Bounds ==
    (Wrote /\ qspiInterface.mode = SingleBitTwoWire /\ ValidAddress) =>
        /\ Len(call.in[2]) > 2 => call.out = Err("Bounds") /\ NoTransaction
        /\ Len(call.in[2]) <= 2 =>
               /\ call.out # Panic
               /\ call.out # Err("Bounds")
               /\ EncodedIndexes(call.in[1], call.in[2]) \subseteq 0..(EncodedSize - 1)
               /\ end_index(call.in[2]) <= EncodedSize
               /\ Len(qspiInterface.qspi) = 1

\* Witness of C28: a write of three bytes has been refused with Bounds.
C28_Witness ==
    /\ Wrote
    /\ qspiInterface.mode = SingleBitTwoWire
    /\ ValidAddress
    /\ Len(call.in[2]) = 3
    /\ call.out = Err("Bounds")
    /\ NoTransaction

\* streaming is set by a start_stream that returns Ok, and by nothing else; it
\* is never cleared.
StreamingSetByStartStream ==
    /\ qspiInterface.streaming => qspiInterface'.streaming
    /\ (~qspiInterface.streaming /\ qspiInterface'.streaming) =>
           call'.fn = "start_stream" /\ call'.out = Ok(<<>>)
    /\ (call = NoCall /\ call'.fn = "start_stream" /\ call'.out = Ok(<<>>)) =>
           qspiInterface'.streaming

\* C29: in FourBitSerial mode a write of a valid address is one write of the
\* peripheral with the same address and bytes, and returns what the peripheral
\* returns, as long as no start_stream has succeeded; once one has, the write
\* returns InvalidState and asks nothing of the peripheral.
C29_FourBitWrite ==
    /\ []((Wrote /\ qspiInterface.mode = FourBitSerial /\ ValidAddress) =>
            IF qspiInterface.streaming
            THEN call.out = Err("InvalidState") /\ NoTransaction
            ELSE /\ Len(qspiInterface.qspi) = 1
                 /\ qspiInterface.qspi[1].op = "write"
                 /\ qspiInterface.qspi[1].addr = call.in[1]
                 /\ qspiInterface.qspi[1].data = call.in[2]
                 /\ call.out = QspiResult(qspiInterface.qspi[1].res, <<>>))
    /\ [][StreamingSetByStartStream]_vars

\* Witness of C29: a write of two bytes in FourBitSerial mode has been refused
\* after start_stream.
C29_Witness ==
    /\ Wrote
    /\ qspiInterface.mode = FourBitSerial
    /\ qspiInterface.streaming
    /\ call.in = <<1, <<165, 90>>>>
    /\ call.out = Err("InvalidState")

\* C30: a read of a valid address returns InvalidState and asks nothing of the
\* peripheral unless the mode is FourBitSerial; in FourBitSerial mode it is one
\* read of the peripheral at 0x80 | addr.  The address of every read of the
\* peripheral has its top bit set, the address of every write has not.
C30_ReadFlag ==
    /\ (HasRead /\ ValidAddress) =>
           IF qspiInterface.mode # FourBitSerial
           THEN call.out = Err("InvalidState") /\ NoTransaction
           ELSE /\ Len(qspiInterface.qspi) = 1
                /\ qspiInterface.qspi[1].op = "read"
                /\ qspiInterface.qspi[1].addr = 128 + call.in[1]
                /\ Len(qspiInterface.qspi[1].data) = call.in[2]
                /\ call.out.tag = "Ok" => call.out.val = qspiInterface.qspi[1].data
    /\ \A i \in 1..Len(qspiInterface.qspi) :
           LET t == qspiInterface.qspi[i]
           IN  /\ t.op = "read" => t.addr \in 128..255
               /\ t.op = "write" => t.addr \in 0..127

\* Witness of C30: register 0x2A has been read at 0xAA in FourBitSerial mode.
C30_Witness ==
    /\ HasRead
    /\ call.in[1] = 42
    /\ qspiInterface.mode = FourBitSerial
    /\ call.out.tag = "Ok"
    /\ qspiInterface.qspi[1].addr = 170

\* C32 as stated: once start_stream has succeeded, no write and no read asks
\* anything of the peripheral, whatever the mode has been set to since.
C32_StreamingExclusive ==
    ((Wrote \/ HasRead) /\ qspiInterface.streaming) => NoTransaction

----------------------------------------------------------------------------
(* Properties of set_attenuations, under AttenuatorSpec. *)

\* The bit b of the byte x.
ByteBit(x, b) == (x \div Pow2(b)) % 2

\* The attenuation a, in units of 1/AttenuationScale dB, lies outside
\* [0, 31.5] dB.
OutsideAttenuation(a) == a < 0 \/ 2 * a > 63 * AttenuationScale

\* floor(2a) for the attenuation a.
DoubledFloor(a) == CHOOSE n \in 0..63 : n * AttenuationScale <= 2 * a
                                        /\ 2 * a < (n + 1) * AttenuationScale

\* The calls of the running set_attenuations on the method fn.
AttenuatorCalls(fn) == {k \in 1..Len(attenuators) : attenuators[k].fn = fn}

\* C39: set_attenuations with an attenuation outside [0, 31.5] dB returns
\* Bounds and calls neither transfer_attenuators nor latch_attenuators.
\* Otherwise it calls transfer_attenuators once, first, with for each value a
\* the byte whose upper six bits are the complement of floor(2a) and whose low
\* two bits are 1; it calls latch_attenuators once, after it, with the channel
\* given, if and only if the transfer succeeded; and when both succeeded it
\* returns floor(2a) / 2 for each channel.
C39_ValidateTransferLatch ==
    call.fn = "set_attenuations" =>
        LET channels == call.in[1]
            a == call.in[2]
        IN  IF \E i \in 1..4 : OutsideAttenuation(a[i])
            THEN call.out = Err("Bounds") /\ attenuators = <<>>
            ELSE /\ AttenuatorCalls("transfer_attenuators") = {1}
                 /\ \A i \in 1..4 :
                        LET byte == attenuators[1].in[i]
                        IN  /\ byte \in 0..255
                            /\ ByteBit(byte, 0) = 1 /\ ByteBit(byte, 1) = 1
                            /\ \A b \in 0..5 :
                                   ByteBit(byte, b + 2) = 1 - ByteBit(DoubledFloor(a[i]), b)
                 /\ IF attenuators[1].res = "ok"
                    THEN /\ AttenuatorCalls("latch_attenuators") = {2}
                         /\ Len(attenuators) = 2
                         /\ attenuators[2].in = <<channels>>
                         /\ IF attenuators[2].res = "ok"
                            THEN /\ call.out.tag = "Ok"
                                 /\ \A i \in 1..4 :
                                        2 * call.out.val[i] = DoubledFloor(a[i]) * AttenuationScale
                            ELSE call.out = Err(attenuators[2].res)
                    ELSE /\ Len(attenuators) = 1
                         /\ call.out = Err(attenuators[1].res)

\* Witness of C39: attenuations of 0.75, 15.75, 31.5 and 0 dB were
\* transferred as the codes 1, 31, 63 and 0 and latched on channel 2; 0.5,
\* 15.5, 31.5 and 0 dB are returned.
C39_Witness ==
    /\ call.fn = "set_attenuations"
    /\ call.in = <<2, <<3, 63, 126, 0>>>>
    /\ Len(attenuators) = 2
    /\ attenuators[1].in = <<251, 131, 3, 255>>
    /\ call.out = Ok(<<2, 62, 126, 0>>)

\* An attenuation of 31.75 dB in the last place was rejected.
C39_Rejected ==
    /\ call.fn = "set_attenuations"
    /\ call.in[2] = <<0, 0, 0, 127>>
    /\ call.out = Err("Bounds")

----------------------------------------------------------------------------
(* Properties of the per-channel operations, under ChannelSpec. *)

ChannelRegisters == {"CFTW0", "CPOW0", "ACR"}
DdsSetters == {"set_phase", "set_amplitude", "set_frequency"}
DdsGetters == {"get_phase", "get_amplitude", "get_frequency"}

\* C34: on the chip with per-channel registers, a getter called on a single
\* channel c that returns Ok returns what the last setter of that register
\* that returned Ok on a channel set containing c returned (for the frequency:
\* the tuning word it wrote), whatever was set or read on other channels,
\* whatever self_test did, and whatever setter failed since.
C34_SetThenGet ==
    \A c \in ChipChannels :
        (/\ call.fn \in DdsGetters
         /\ call.in = <<c>>
         /\ call.out.tag = "Ok"
         /\ dds.set[c][ChannelRegister[call.fn]] # <<>>) =>
            call.out.val = dds.set[c][ChannelRegister[call.fn]]

\* Witness of C34: get_phase on channel one returns the quarter turn set
\* there, after four turns were set on channel two and a self_test that
\* failed left no channel enabled.
C34_Witness ==
    /\ call.fn = "get_phase" /\ call.in = <<ChannelONE>>
    /\ call.out = Ok(<<Pow2(13)>>)
    /\ dds.set[ChannelONE].CPOW0 = <<Pow2(13)>>
    /\ dds.set[ChannelTWO].CPOW0 = <<Pow2(14) - 1>>
    /\ EnabledChannels(dds.csr) = {}

\* get_frequency on channel two returns the tuning word of 10 MHz at 100 MHz
\* while channel one holds none.
C34_Frequency ==
    /\ call.fn = "get_frequency" /\ call.in = <<ChannelTWO>>
    /\ call.out.tag = "Ok"
    /\ call.out.val = dds.set[ChannelTWO].CFTW0
    /\ call.out.val # <<0, 0, 0, 0>>
    /\ dds.set[ChannelONE].CFTW0 = <<>>

\* A step that runs an operation changes a per-channel register only if the
\* operation is the setter of that register and the channel is in its channel
\* set; it leaves FR1 as it is; and a setter that returns Ok leaves in the
\* target register of every channel of its set the value it returns.
FrameKept ==
    (call = NoCall /\ call' # NoCall) =>
        /\ dds'.fr1 = dds.fr1
        /\ \A c \in ChipChannels, reg \in ChannelRegisters :
               dds'[reg][c] # dds[reg][c] =>
                   /\ call'.fn \in DdsSetters
                   /\ reg = ChannelRegister[call'.fn]
                   /\ BitAnd(call'.in[1], c) # 0
        /\ (call'.fn \in DdsSetters /\ call'.out.tag = "Ok") =>
               \A c \in EnabledChannels(call'.in[1]) :
                   LET reg == ChannelRegister[call'.fn]
                       getter == CHOOSE g \in DdsGetters : ChannelRegister[g] = reg
                   IN  Decode(getter, dds'[reg][c]) = call'.out.val

\* C35: set_frequency, set_phase and set_amplitude on a channel set change
\* only their target register of the channels in the set: the three registers
\* of the channels outside it, the two other registers of the channels in it
\* and FR1 stay as they are; the getters and self_test change no register
\* other than CSR.
C35_Frame == [][FrameKept]_vars

\* Witness of C35: set_phase on channels one and two has written CPOW0 of
\* both, channel three keeps its CPOW0 and channel one the ACR set before.
C35_Witness ==
    /\ call.fn = "set_phase" /\ call.in[1] = BitOr(ChannelONE, ChannelTWO)
    /\ call.out = Ok(<<Pow2(14) - 1>>)
    /\ dds.CPOW0[ChannelONE] = <<63, 255>> /\ dds.CPOW0[ChannelTWO] = <<63, 255>>
    /\ dds.CPOW0[ChannelTHREE] = <<0, 0>>
    /\ dds.ACR[ChannelONE] # <<0, 0, 0>>
    /\ dds.ACR[ChannelTWO] = <<0, 0, 0>>

\* A getter and a self_test have run on a chip whose registers differ per
\* channel, and the CSR is the only register they changed.
C35_GetChangesCsr ==
    /\ call.fn = "self_test" /\ call.out.tag = "Err"
    /\ EnabledChannels(dds.csr) = ChipChannels
    /\ dds.CFTW0[ChannelONE] # dds.CFTW0[ChannelTWO]

====
